---- MODULE Spec2Model ----
(***************************************************************************)
(* Token price update pipeline of token-price-service.                     *)
(*                                                                         *)
(* One run of UpdateTokenPricesHandler.execute over PrismaTokenRepository  *)
(* (processAll / saveBatch), Token.updatePrice / pullEvents, KafkaEventBus *)
(* .publish and KafkaProducerService.sendPriceUpdateBatch.                 *)
(*                                                                         *)
(* SpecToken exercises one Token under any sequence of updatePrice and     *)
(* pullEvents calls, SpecRetry one retry(fn, opts) call, SpecOverlap two   *)
(* runs of execute over one store, SpecPrice TokenPrice values under any   *)
(* sequence of their factories and operations, SpecProducer the Kafka      *)
(* producer from its construction on, SpecEntry the cron tick and POST     *)
(* trigger-update, and SpecLive a run all of whose calls return.           *)
(*                                                                         *)
(* Token ids are 1..N in ascending order (the store orders by id), prices  *)
(* are small whole numbers, timestamps are ticks of a logical clock.       *)
(***************************************************************************)
EXTENDS Integers, Sequences, FiniteSets, TLC

\* ---- bounds of the model ------------------------------------------------
MaxTokens == 3
MaxBatch == 2
MaxPrice == 2
MaxTokenCalls == 4
MaxRetries == 2
MaxDelay == 2
MaxFactor == 2
MaxLate == 1
MaxOverlapTokens == 1
MaxFracDigits == 9
MaxPriceCalls == 2
MaxLiveTokens == 2
MaxMessages == 2
MaxProducerCalls == 3
MaxEntryCalls == 3

\* ---- program constants ---------------------------------------------------
SCALE_FACTOR == 100000000
SaveBatchRetries == 3
CursorSkip == 1
DefaultFactor == 2

\* a token's symbol: a ticker, the empty string, or null
SymbolSeq == <<"ETH", "", "null">>
OraclePrices == (-1)..MaxPrice

VARIABLES
  store,          \* rows of the tokens table, indexed by id: symbol, currentPrice, lastPriceUpdateDateTime
  initial,        \* the store as it was when the run started (never changed)
  batchSize,      \* processAll's batchSize parameter
  enabled,        \* KafkaProducerService.enabled
  pc,             \* execute/processAll: idle, read, await, completed, failed
  cpc,            \* the batch callback: none, oracle, publish, save, returned, threw
  cursor,         \* processAll's cursor (0 = undefined)
  batch,          \* the Token objects of the batch handed to the callback
  oracle,         \* per token of the batch, the getPriceForToken call: pending, error, or price p
  results,        \* per token of the batch: Promise.allSettled status
  tokensToSave,   \* callback local
  allEvents,      \* callback local
  totalProcessed,
  updatedCount,
  errorCount,
  saveAttempts,   \* failed attempts of the current saveBatch's retry
  clock,          \* logical time returned by new Date(); it ticks once per batch
  sent,           \* messages of producer.send calls that completed without error
  sendCalls,      \* number of producer.send calls made
  reads,          \* lengths of the results of the findMany calls issued so far
  delivered,      \* id lists of the batches handed to the callback so far
  publishOk,      \* batch numbers whose bus.publish returned successfully
  publishRejected,\* batch numbers whose bus.publish rejected
  saveInvoked,    \* batch numbers for which repo.saveBatch was invoked
  saveRejected,   \* batch numbers whose repo.saveBatch rejected
  hadEvents,      \* batch numbers whose collected event list was non-empty
  oracleLog,      \* token id -> outcome of its getPriceForToken call, for the calls settled so far
  readFailed,     \* a findMany of processAll rejected
  thrown,         \* error execute rejected with: none, cursor, publish, save
  completedMetric,
  failedMetric,
  sendRejected,   \* batch numbers whose producer.send rejected
  spanRecorded,   \* number of recordSpan calls of execute's finally block
  tk,             \* a Token object exercised on its own: updatePrice and pullEvents calls
  op,             \* a retry(fn, opts) call exercised on its own
  ov,             \* two execute calls running over one store
  tp,             \* TokenPrice values exercised on their own
  kp,             \* the Kafka producer and event bus exercised on their own
  ep              \* the entry points of a run: the cron tick and POST trigger-update

vars == <<store, initial, tk, op, ov, tp, kp, ep, batchSize, enabled, sendRejected, pc, cpc, cursor, batch, oracle,
          results, tokensToSave, allEvents, totalProcessed, updatedCount,
          errorCount, saveAttempts, clock, sent, sendCalls, reads, delivered,
          publishOk, publishRejected, saveInvoked, saveRejected, hadEvents,
          oracleLog, readFailed, thrown, completedMetric, failedMetric,
          sendRejected, spanRecorded, tk, op, ov, tp, kp, ep>>

\* the variables of a run of execute
runVars == <<store, initial, batchSize, enabled, pc, cpc, cursor, batch, oracle,
             results, tokensToSave, allEvents, totalProcessed, updatedCount,
             errorCount, saveAttempts, clock, sent, sendCalls, reads, delivered,
             publishOk, publishRejected, saveInvoked, saveRejected, hadEvents,
             oracleLog, readFailed, thrown, completedMetric, failedMetric,
             sendRejected, spanRecorded>>

\* ---- helpers -------------------------------------------------------------
Min(a, b) == IF a < b THEN a ELSE b

RECURSIVE Flatten(_)
Flatten(ss) == IF ss = <<>> THEN <<>> ELSE Head(ss) \o Flatten(Tail(ss))

Range(s) == { s[i] : i \in 1..Len(s) }

\* Sequence of the elements s[i] with i in 1..Len(s) satisfying keep[i]
RECURSIVE SelectByIndex(_, _, _)
SelectByIndex(s, keep, i) ==
  IF i > Len(s) THEN <<>>
  ELSE (IF keep[i] THEN <<s[i]>> ELSE <<>>) \o SelectByIndex(s, keep, i + 1)

BatchNo == Len(delivered)

\* ---- TokenPrice ------------------------------------------------------------
\* TokenPrice.create for a whole number: rejects n <= 0, else the scaled amount
TokenPriceValid(n) == n > 0
TokenPriceCreate(n) == n * SCALE_FACTOR
TokenPriceGetValue(amount) == amount \div SCALE_FACTOR
TokenPriceEquals(a, b) == a = b

\* ---- Token -----------------------------------------------------------------
\* PrismaTokenRepository.mapToDomain / Token.restore
MapToDomain(id, row) ==
  [id |-> id, symbol |-> row.symbol, price |-> TokenPriceCreate(row.currentPrice),
   time |-> row.lastPriceUpdateDateTime, events |-> <<>>]

\* variant: no early return on an equal price
UpdatePriceNoEqualsCheck(token, newPrice, occurredAt) ==
  [token EXCEPT
     !.price = TokenPriceCreate(newPrice),
     !.time = occurredAt,
     !.events = Append(@, [name |-> "PriceUpdated",
                           tokenId |-> token.id,
                           symbol |-> token.symbol,
                           oldPrice |-> TokenPriceGetValue(token.price),
                           newPrice |-> newPrice,
                           occurredAt |-> occurredAt])]

\* variant: an equal price still refreshes lastPriceUpdateDateTime
UpdatePriceTouchesTime(token, newPrice, occurredAt) ==
  IF TokenPriceEquals(TokenPriceCreate(newPrice), token.price)
  THEN [token EXCEPT !.time = occurredAt]
  ELSE UpdatePriceNoEqualsCheck(token, newPrice, occurredAt)

\* variant: oldPrice is read after the new price has been assigned
UpdatePriceOldPriceLate(token, newPrice, occurredAt) ==
  IF TokenPriceEquals(TokenPriceCreate(newPrice), token.price)
  THEN token
  ELSE [token EXCEPT
          !.price = TokenPriceCreate(newPrice),
          !.time = occurredAt,
          !.events = Append(@, [name |-> "PriceUpdated",
                                tokenId |-> token.id,
                                symbol |-> token.symbol,
                                oldPrice |-> newPrice,
                                newPrice |-> newPrice,
                                occurredAt |-> occurredAt])]

\* Token.updatePrice(newPrice, occurredAt) for a valid newPrice
UpdatePrice(token, newPrice, occurredAt) ==
  IF TokenPriceEquals(TokenPriceCreate(newPrice), token.price)
  THEN token
  ELSE [token EXCEPT
          !.price = TokenPriceCreate(newPrice),
          !.time = occurredAt,
          !.events = Append(@, [name |-> "PriceUpdated",
                                tokenId |-> token.id,
                                symbol |-> token.symbol,
                                oldPrice |-> TokenPriceGetValue(token.price),
                                newPrice |-> newPrice,
                                occurredAt |-> occurredAt])]

\* ---- PrismaTokenRepository.processAll ---------------------------------------
\* variant: the cursor row itself is not skipped
FindManyNoSkip(n, cur, take) ==
  LET first == IF cur = 0 THEN 1 ELSE cur
  IN  [i \in 1..(Min(n, first + take - 1) - first + 1) |-> first + i - 1]

\* prisma.token.findMany({take, cursor: {id}, skip: 1, orderBy: {id: asc}}):
\* the ids of the rows returned
FindMany(n, cur, take) ==
  LET first == IF cur = 0 THEN 1 ELSE cur + CursorSkip
      last  == Min(n, first + take - 1)
  IN  IF last < first THEN <<>> ELSE [i \in 1..(last - first + 1) |-> first + i - 1]

\* variant: no break on a short batch
IsLastBatchNever(len, size) == FALSE

\* "if (rows.length < batchSize) break"
IsLastBatch(len, size) == len < size

\* variant: the callback is started but not awaited
CallbackNotAwaited(c) == c # "none"

\* "await callback(tokens)": the loop goes on only when the callback has returned
CallbackAwaited(c) == c = "returned"

\* variant: a rejected findMany ends the loop like an empty batch
OnReadRejectedBreak == "completed"

\* what a rejected findMany does to the run: nothing catches it before execute's catch
OnReadRejected == "failed"

\* ---- UpdateTokenPricesHandler.execute: the batch callback --------------------
\* variant: the price returned is not validated
SettledStatusNoValidation(o) ==
  IF o.kind = "pending" THEN "pending"
  ELSE IF o.kind = "error" THEN "rejected" ELSE "fulfilled"

\* Promise.allSettled over "getPriceForToken; token.updatePrice(newPrice, new Date())":
\* the status of one task whose oracle call ended with outcome o
SettledStatus(o) ==
  IF o.kind = "pending" THEN "pending"
  ELSE IF o.kind = "error" THEN "rejected"
  ELSE IF TokenPriceValid(o.price) THEN "fulfilled" ELSE "rejected"

\* variant: the queue is returned but not cleared
PulledKeepsQueue(token) == token

\* token.pullEvents(): the token with its queue emptied
Pulled(token) == [token EXCEPT !.events = <<>>]

\* token.pullEvents(): the list returned, a copy of the queue
PullEventsResult(token) == token.events

\* variant: rejected tokens are pushed too
TokensToSaveAll(b, res) == [i \in 1..Len(b) |-> Pulled(b[i])]

\* results.forEach: the tokens pushed to tokensToSave
TokensToSave(b, res) ==
  SelectByIndex([i \in 1..Len(b) |-> Pulled(b[i])],
                [i \in 1..Len(b) |-> res[i] = "fulfilled"], 1)

\* results.forEach: the events pushed to allEvents
AllEvents(b, res) ==
  Flatten(SelectByIndex([i \in 1..Len(b) |-> b[i].events],
                        [i \in 1..Len(b) |-> res[i] = "fulfilled"], 1))

CountOf(res, status) == Cardinality({ i \in 1..Len(res) : res[i] = status })

\* variant: only the tokens whose price changed are counted as updated
UpdatedInChangedOnly(b, res) == Len(AllEvents(b, res))

\* results.forEach: updatedCount++ for every fulfilled result
UpdatedIn(b, res) == CountOf(res, "fulfilled")

\* variant: persist first, without waiting for a publish
AfterCollectSaveFirst(events, toSave) ==
  IF toSave # <<>> THEN "save" ELSE "returned"

\* variant: publish is called whether or not there are events
AfterCollectAlwaysPublish(events, toSave) == "publish"

\* the step the callback takes after results.forEach:
\* "if (allEvents.length > 0) await bus.publish" comes before
\* "if (tokensToSave.length > 0) await repo.saveBatch"
AfterCollect(events, toSave) ==
  IF events # <<>> THEN "publish"
  ELSE IF toSave # <<>> THEN "save" ELSE "returned"

\* the step after bus.publish resolved
AfterPublish(toSave) == IF toSave # <<>> THEN "save" ELSE "returned"

\* variant: a rejected publish is only logged and the batch is saved all the same
OnPublishRejectedLogOnly(toSave) == AfterPublish(toSave)

\* the step after bus.publish rejected: the await throws out of the callback
OnPublishRejected(toSave) == "threw"

\* ---- KafkaEventBus.publish / KafkaProducerService.sendPriceUpdateBatch --------
\* publish: events.filter(PriceUpdated).map(...), symbol ?? "UNKNOWN"
PriceUpdateMessages(events) ==
  LET pu == SelectSeq(events, LAMBDA e : e.name = "PriceUpdated")
  IN  [i \in 1..Len(pu) |->
         [tokenId |-> pu[i].tokenId,
          symbol |-> IF pu[i].symbol = "null" THEN "UNKNOWN" ELSE pu[i].symbol,
          oldPrice |-> pu[i].oldPrice,
          newPrice |-> pu[i].newPrice,
          timestamp |-> pu[i].occurredAt]]

\* sendPriceUpdateBatch: messages.filter(tokenId && symbol && oldPrice >= 0 && newPrice >= 0)
ValidMessages(messages) ==
  SelectSeq(messages, LAMBDA m : m.tokenId # 0 /\ m.symbol # ""
                                 /\ m.oldPrice >= 0 /\ m.newPrice >= 0)

\* the messages of the producer.send that publish(allEvents) issues (none: no send)
SendOf(events) ==
  IF ~enabled THEN <<>> ELSE ValidMessages(PriceUpdateMessages(events))

\* ---- KafkaProducerService on its own -------------------------------------------
\* NODE_ENV, lower-cased
Envs == {"test", "development", "production"}

\* the messages the producer is tried with: tokenId 0 stands for a falsy id
Messages ==
  {[tokenId |-> 1, symbol |-> "ETH", oldPrice |-> 1, newPrice |-> 2, timestamp |-> 1],
   [tokenId |-> 0, symbol |-> "ETH", oldPrice |-> 1, newPrice |-> 2, timestamp |-> 1],
   [tokenId |-> 1, symbol |-> "", oldPrice |-> 1, newPrice |-> 2, timestamp |-> 1],
   [tokenId |-> 1, symbol |-> "ETH", oldPrice |-> -1, newPrice |-> 2, timestamp |-> 1]}

MessageBatches == UNION {[1..n -> Messages] : n \in 0..MaxMessages}

\* variant: the flag is raised before the connection attempt and a failure leaves it
EnabledAfterInitSetEarly(env, connects) == env # "test"

\* onModuleInit: the value of "enabled" when it returns
EnabledAfterInit(env, connects) == IF env = "test" THEN FALSE ELSE connects

\* the messages sendPriceUpdateMessage hands to producer.send (none: no send)
SendMessageOf(on, message) ==
  IF ~on THEN <<>> ELSE ValidMessages(<<message>>)

\* the messages sendPriceUpdateBatch hands to producer.send (none: no send)
SendBatchOf(on, messages) ==
  IF messages = <<>> THEN <<>>
  ELSE IF ~on THEN <<>>
  ELSE ValidMessages(messages)

\* the producer after a call that handed "out" to producer.send (if any); every
\* error, a rejected send included, is caught and logged inside the call
KpAfter(call, arg, out, ok) ==
  [kp EXCEPT !.call = call, !.arg = arg, !.out = out, !.threw = FALSE, !.calls = @ + 1,
             !.sendCalls = IF out # <<>> THEN @ + 1 ELSE @]

\* Nest calls onModuleInit once, at start
KpOnModuleInit(env, connects) ==
  /\ ~kp.inited
  /\ kp.calls < MaxProducerCalls
  /\ kp' = [kp EXCEPT !.call = "onModuleInit", !.env = env, !.connects = connects,
                       !.inited = TRUE, !.enabled = EnabledAfterInit(env, connects),
                       !.arg = <<>>, !.out = <<>>, !.threw = FALSE, !.calls = @ + 1]
  /\ UNCHANGED <<runVars, tk, op, ov, tp, ep>>

KpSendMessage(message, ok) ==
  /\ kp.calls < MaxProducerCalls
  /\ kp' = KpAfter("sendPriceUpdateMessage", <<message>>,
                   SendMessageOf(kp.enabled, message), ok)
  /\ UNCHANGED <<runVars, tk, op, ov, tp, ep>>

KpSendBatch(messages, ok) ==
  /\ kp.calls < MaxProducerCalls
  /\ kp' = KpAfter("sendPriceUpdateBatch", messages,
                   SendBatchOf(kp.enabled, messages), ok)
  /\ UNCHANGED <<runVars, tk, op, ov, tp, ep>>

\* KafkaEventBus.publish over the producer: one sendPriceUpdateBatch inside retry,
\* which resolves at the first attempt because the call never rejects
KpPublish(messages, ok) ==
  /\ kp.calls < MaxProducerCalls
  /\ kp' = KpAfter("publish", messages, SendBatchOf(kp.enabled, messages), ok)
  /\ UNCHANGED <<runVars, tk, op, ov, tp, ep>>

\* ---- outcomes of getPriceForToken -------------------------------------------
Pending == [kind |-> "pending", price |-> 0]
OracleError == [kind |-> "error", price |-> 0]
OracleOutcomes == {OracleError} \cup { [kind |-> "price", price |-> p] : p \in OraclePrices }

\* ---- a Token on its own -------------------------------------------------------
\* no Token under exercise
TkIdle == [call |-> "none"]

\* the Tokens Token.restore can build from a row
TokenInits ==
  { MapToDomain(1, [symbol |-> SymbolSeq[k], currentPrice |-> p,
                    lastPriceUpdateDateTime |-> 0]) :
      k \in 1..Len(SymbolSeq), p \in 1..MaxPrice }

\* the events a call appended to the queue
Enqueued(before, after) ==
  SubSeq(after.events, Len(before.events) + 1, Len(after.events))

\* token.updatePrice(p, t): TokenPrice.create throws on an invalid p before
\* anything is assigned
TokenUpdatePrice(p) ==
  /\ tk.call # "none"
  /\ tk.now < MaxTokenCalls
  /\ LET t == tk.now + 1
         after == IF TokenPriceValid(p) THEN UpdatePrice(tk.token, p, t) ELSE tk.token
     IN  tk' = [tk EXCEPT
                  !.call = IF TokenPriceValid(p) THEN "updatePrice" ELSE "updatePriceThrew",
                  !.arg = p,
                  !.at = t,
                  !.now = t,
                  !.before = tk.token,
                  !.token = after,
                  !.enq = @ \o Enqueued(tk.token, after)]
  /\ UNCHANGED <<runVars, op, ov, tp, kp, ep>>

\* token.pullEvents()
TokenPullEvents ==
  /\ tk.call # "none"
  /\ tk.now < MaxTokenCalls
  /\ tk' = [tk EXCEPT
              !.call = "pullEvents",
              !.arg = 0,
              !.at = 0,
              !.now = tk.now + 1,
              !.before = tk.token,
              !.token = Pulled(tk.token),
              !.pulls = Append(@, PullEventsResult(tk.token))]
  /\ UNCHANGED <<runVars, op, ov, tp, kp, ep>>

\* ---- a retry call on its own --------------------------------------------------
\* no retry call under exercise
OpIdle == [state |-> "none"]

\* the messages of the errors fn may reject with
ErrorMessages == {"A", "B"}

RECURSIVE Pow(_, _)
Pow(b, e) == IF e = 0 THEN 1 ELSE b * Pow(b, e - 1)

\* the options retry may be called with: factor may be omitted
RetryOptions ==
  [retries : 0..MaxRetries, initialDelayMs : 1..MaxDelay,
   factorGiven : BOOLEAN, factor : 1..MaxFactor]

\* variant: an omitted factor means a constant delay
FactorOrOne(opts) == IF opts.factorGiven THEN opts.factor ELSE 1

\* "factor: opts.factor ?? 2"
Factor(opts) == IF opts.factorGiven THEN opts.factor ELSE DefaultFactor

\* variant: one timeout more than opts.retries
TimeoutsOneMore(opts) ==
  [k \in 1..(opts.retries + 1) |-> opts.initialDelayMs * Pow(Factor(opts), k - 1)]

\* retryLib.operation({retries, minTimeout, factor}): the timeouts of the operation,
\* one per retry, minTimeout * factor^k for k = 0..retries-1 (in ascending order)
Timeouts(opts) ==
  [k \in 1..opts.retries |-> opts.initialDelayMs * Pow(Factor(opts), k - 1)]

\* operation.mainError(): scanning the errors in order, an error replaces the
\* current main error when its message has by then occurred at least as often as
\* the main error's count
RECURSIVE MainErrorScan(_, _, _, _)
MainErrorScan(errors, i, main, mainCount) ==
  IF i > Len(errors) THEN main
  ELSE LET count == Cardinality({ j \in 1..i : errors[j].message = errors[i].message })
       IN  IF count >= mainCount
           THEN MainErrorScan(errors, i + 1, errors[i], count)
           ELSE MainErrorScan(errors, i + 1, main, mainCount)

\* variant: the error caught last
MainErrorLast(errors) == errors[Len(errors)]

\* "reject(operation.mainError())"
MainError(errors) == MainErrorScan(errors, 1, errors[1], 0)

\* retry(fn, opts) was called: operation.attempt invokes fn at once
RetryInits ==
  { [state |-> "attempting", opts |-> o, timeouts |-> Timeouts(o), calls |-> 1,
     inFlight |-> 1, errors |-> <<>>, waits |-> <<>>, now |-> 0, due |-> 0,
     starts |-> <<0>>, fails |-> <<>>, result |-> 0,
     rejection |-> [message |-> "", attempt |-> 0]] : o \in RetryOptions }

\* "const result = await fn(); resolve(result)": the attempt's result is its number
RetryFnResolves ==
  /\ op.state = "attempting"
  /\ op' = [op EXCEPT !.state = "resolved", !.inFlight = @ - 1, !.result = op.calls]
  /\ UNCHANGED <<runVars, tk, ov, tp, kp, ep>>

\* fn rejects with an error: operation.retry(error) records it and arms the timer
\* of the next timeout, or, with no timeout left, returns false and retry rejects
RetryFnRejects(m) ==
  /\ op.state = "attempting"
  /\ LET errs == Append(op.errors, [message |-> m, attempt |-> op.calls])
     IN  IF op.timeouts # <<>>
         THEN op' = [op EXCEPT !.state = "waiting",
                               !.inFlight = @ - 1,
                               !.errors = errs,
                               !.fails = Append(@, op.now),
                               !.waits = Append(@, Head(op.timeouts)),
                               !.due = op.now + Head(op.timeouts),
                               !.timeouts = Tail(@)]
         ELSE op' = [op EXCEPT !.state = "rejected",
                               !.inFlight = @ - 1,
                               !.errors = errs,
                               !.fails = Append(@, op.now),
                               !.rejection = MainError(errs)]
  /\ UNCHANGED <<runVars, tk, ov, tp, kp, ep>>

\* time passes while the timer is armed; the timer may fire late
RetryTick ==
  /\ op.state = "waiting"
  /\ op.now < op.due + MaxLate
  /\ op' = [op EXCEPT !.now = @ + 1]
  /\ UNCHANGED <<runVars, tk, ov, tp, kp, ep>>

\* the timer fires, not before its timeout: the next attempt invokes fn
RetryTimerFires ==
  /\ op.state = "waiting"
  /\ op.now >= op.due
  /\ op' = [op EXCEPT !.state = "attempting",
                        !.calls = @ + 1,
                        !.inFlight = @ + 1,
                        !.starts = Append(@, op.now)]
  /\ UNCHANGED <<runVars, tk, ov, tp, kp, ep>>

\* ---- overlapping runs ------------------------------------------------------------
\* no pair of runs under exercise
OvIdle == [clock |-> 0]

\* ---- the producer and the entry points on their own ---------------------------
\* the producer as constructed ("private enabled = false"), nothing called yet
KpIdle ==
  [call |-> "none", env |-> "none", connects |-> FALSE, inited |-> FALSE,
   enabled |-> FALSE, arg |-> <<>>, out |-> <<>>, sendCalls |-> 0, threw |-> FALSE,
   calls |-> 0]

\* no entry point under exercise
EpIdle ==
  [call |-> "none", isEnabled |-> FALSE, env |-> "none", expected |-> "", header |-> "none",
   phase |-> "idle", outcome |-> "none", status |-> 0, execByTick |-> 0,
   execByTrigger |-> 0, failures |-> 0, calls |-> 0]

\* ---- TokenPrice on its own ------------------------------------------------------
\* no TokenPrice under exercise
TpIdle ==
  [call |-> "none", arg |-> [type |-> "none"], result |-> [ok |-> FALSE, amount |-> 0, error |-> ""],
   a |-> 0, b |-> 0, out |-> <<>>, calls |-> 0]

\* strings are sequences of characters
Digits == {"0", "1", "2", "3", "4", "5", "6", "7", "8", "9"}

DigitValue ==
  [c \in Digits |->
     CASE c = "0" -> 0 [] c = "1" -> 1 [] c = "2" -> 2 [] c = "3" -> 3 [] c = "4" -> 4
       [] c = "5" -> 5 [] c = "6" -> 6 [] c = "7" -> 7 [] c = "8" -> 8 [] c = "9" -> 9]

DigitChar(d) == CHOOSE c \in Digits : DigitValue[c] = d

IsDigits(s) == \A i \in 1..Len(s) : s[i] \in Digits

\* BigInt(digits)
RECURSIVE DigitsToInt(_)
DigitsToInt(s) ==
  IF s = <<>> THEN 0
  ELSE 10 * DigitsToInt(SubSeq(s, 1, Len(s) - 1)) + DigitValue[s[Len(s)]]

\* n.toString() of a whole number n >= 0
RECURSIVE IntToDigits(_)
IntToDigits(n) ==
  IF n < 10 THEN <<DigitChar(n)>>
  ELSE IntToDigits(n \div 10) \o <<DigitChar(n % 10)>>

\* index of the first "." of s, or 0
FirstDot(s) ==
  IF \E i \in 1..Len(s) : s[i] = "."
  THEN CHOOSE i \in 1..Len(s) : s[i] = "." /\ \A j \in 1..(i - 1) : s[j] # "."
  ELSE 0

\* "const [i, fRaw = ''] = str.split('.')": the first two parts
SplitInt(s) == IF FirstDot(s) = 0 THEN s ELSE SubSeq(s, 1, FirstDot(s) - 1)

SplitFrac(s) ==
  IF FirstDot(s) = 0 THEN <<>>
  ELSE LET rest == SubSeq(s, FirstDot(s) + 1, Len(s))
       IN  SplitInt(rest)

\* fracPartRaw.padEnd(8, "0").slice(0, 8)
PadEndSlice(f) == [k \in 1..8 |-> IF k <= Len(f) THEN f[k] ELSE "0"]

\* digits.replace(/^0+(?=\d)/, ""): leading zeros removed, one digit kept
RECURSIVE StripLeadingZeros(_)
StripLeadingZeros(s) ==
  IF Len(s) > 1 /\ s[1] = "0" /\ s[2] \in Digits THEN StripLeadingZeros(Tail(s)) ELSE s

\* fracPart.replace(/0+$/, "")
RECURSIVE StripTrailingZeros(_)
StripTrailingZeros(s) ==
  IF s # <<>> /\ s[Len(s)] = "0"
  THEN StripTrailingZeros(SubSeq(s, 1, Len(s) - 1)) ELSE s

\* /^\d+(?:\.\d{1,8})?$/
MatchesDecimal(s) ==
  \/ s # <<>> /\ IsDigits(s)
  \/ /\ FirstDot(s) > 1
     /\ IsDigits(SubSeq(s, 1, FirstDot(s) - 1))
     /\ LET f == SubSeq(s, FirstDot(s) + 1, Len(s))
        IN  Len(f) >= 1 /\ Len(f) <= 8 /\ IsDigits(f)

\* TokenPriceStringSchema: the regex, then parseFloat(s) > 0 (for a string the regex
\* accepts: some digit is not 0)
SchemaAccepts(s) ==
  MatchesDecimal(s) /\ \E i \in 1..Len(s) : s[i] \in Digits \ {"0"}

\* parseDecimalStringToAmount
ParseDecimalStringToAmount(value) ==
  DigitsToInt(StripLeadingZeros(SplitInt(value) \o PadEndSlice(SplitFrac(value))))

\* formatAmountToDecimalString
FormatAmountToDecimalString(amount) ==
  LET negative == amount < 0
      abs == IF negative THEN 0 - amount ELSE amount
      intPart == IntToDigits(abs \div SCALE_FACTOR)
      padded == LET d == IntToDigits(abs % SCALE_FACTOR)
                IN  [k \in 1..(8 - Len(d)) |-> "0"] \o d
      fracPart == StripTrailingZeros(padded)
      base == IF fracPart # <<>> THEN intPart \o <<".">> \o fracPart ELSE intPart
  IN  IF negative THEN <<"-">> \o base ELSE base

\* the outcome of a call: the amount of the TokenPrice returned, or the error thrown
Returned(amount) == [ok |-> TRUE, amount |-> amount, error |-> ""]
Threw(error) == [ok |-> FALSE, amount |-> 0, error |-> error]

\* a JavaScript number is modelled by the shortest decimal that denotes it (what
\* Number.prototype.toString prints): a sign, integer digits without leading zeros
\* and fractional digits without trailing zeros; or NaN, Infinity, or a value
\* above Number.MAX_SAFE_INTEGER ("huge")
Num(neg, int, frac) ==
  [type |-> "number", kind |-> "decimal", neg |-> neg, int |-> int, frac |-> frac]

Special(kind) ==
  [type |-> "number", kind |-> kind, neg |-> FALSE, int |-> <<"0">>, frac |-> <<>>]

Str(s) == [type |-> "string", s |-> s]

IsZeroNumber(n) ==
  /\ \A i \in 1..Len(n.int) : n.int[i] = "0"
  /\ \A i \in 1..Len(n.frac) : n.frac[i] = "0"

\* Number.isFinite(n)
NumberIsFinite(n) == n.kind \in {"decimal", "huge"}

\* n <= 0
NumberLeqZero(n) == n.kind = "decimal" /\ (n.neg \/ IsZeroNumber(n))

\* n > Number.MAX_SAFE_INTEGER
ExceedsSafeInteger(n) == n.kind = "huge"

\* position of the first non-zero fractional digit
FirstNonZero(f) == CHOOSE i \in 1..Len(f) : f[i] # "0" /\ \A j \in 1..(i - 1) : f[j] = "0"

\* n.toString() of a finite number below 1e21: plain digits, except that a value
\* below 1e-6 is printed in exponent notation ("1e-7", "1.5e-7")
NumberToString(n) ==
  LET sign == IF n.neg /\ ~IsZeroNumber(n) THEN <<"-">> ELSE <<>>
      small == /\ ~IsZeroNumber(n)
               /\ n.int = <<"0">>
               /\ FirstNonZero(n.frac) > 6
  IN  IF small
      THEN LET p == FirstNonZero(n.frac)
               rest == SubSeq(n.frac, p + 1, Len(n.frac))
           IN  sign \o <<n.frac[p]>>
                    \o (IF rest # <<>> THEN <<".">> \o rest ELSE <<>>)
                    \o <<"e", "-">> \o IntToDigits(p)
      ELSE sign \o n.int \o (IF n.frac # <<>> THEN <<".">> \o n.frac ELSE <<>>)

\* parseNumberToAmount without the limit on the digits after the point
ParseNumberToAmountNoDigitLimit(n) ==
  IF ~NumberIsFinite(n) THEN Threw("Invalid number")
  ELSE IF NumberLeqZero(n) THEN Threw("Token price must be positive")
  ELSE IF ExceedsSafeInteger(n) THEN Threw("Token price exceeds safe integer limit")
  ELSE LET str == NumberToString(n)
           i == SplitInt(str)
           fRaw == SplitFrac(str)
           f == SubSeq(fRaw, 1, Min(8, Len(fRaw)))
           normalized == IF Len(f) > 0 THEN i \o <<".">> \o f ELSE i
       IN  IF ~SchemaAccepts(normalized) THEN Threw("ZodError")
           ELSE Returned(ParseDecimalStringToAmount(normalized))

\* parseNumberToAmount
ParseNumberToAmount(n) ==
  IF ~NumberIsFinite(n) THEN Threw("Invalid number")
  ELSE IF NumberLeqZero(n) THEN Threw("Token price must be positive")
  ELSE IF ExceedsSafeInteger(n) THEN Threw("Token price exceeds safe integer limit")
  ELSE LET str == NumberToString(n)
           i == SplitInt(str)
           fRaw == SplitFrac(str)
           f == SubSeq(fRaw, 1, Min(8, Len(fRaw)))
           normalized == IF Len(f) > 0 THEN i \o <<".">> \o f ELSE i
       IN  IF Len(fRaw) > 8
           THEN Threw("Too many decimal places for token price precision")
           ELSE IF ~SchemaAccepts(normalized) THEN Threw("ZodError")
           ELSE Returned(ParseDecimalStringToAmount(normalized))

\* TokenPrice.create(value)
Create(value) ==
  IF value.type = "number" THEN ParseNumberToAmount(value)
  ELSE IF ~SchemaAccepts(value.s) THEN Threw("ZodError")
  ELSE Returned(ParseDecimalStringToAmount(value.s))

\* BigInt(str) of a string of digits with an optional sign; the empty string is 0n
BigIntParses(str) ==
  \/ IsDigits(str)
  \/ Len(str) > 1 /\ str[1] \in {"-", "+"} /\ IsDigits(Tail(str))

BigIntOf(str) ==
  IF str # <<>> /\ str[1] = "-" THEN 0 - DigitsToInt(Tail(str))
  ELSE IF str # <<>> /\ str[1] = "+" THEN DigitsToInt(Tail(str))
  ELSE DigitsToInt(str)

\* TokenPrice.fromAmountString(amountStr)
FromAmountString(amountStr) ==
  IF ~BigIntParses(amountStr) THEN Threw("SyntaxError")
  ELSE IF BigIntOf(amountStr) <= 0 THEN Threw("Token price must be positive")
  ELSE Returned(BigIntOf(amountStr))

\* this.add(other), on the amounts
Add(this, other) ==
  LET result == this + other
  IN  IF result <= 0 THEN Threw("Token price must be positive") ELSE Returned(result)

\* subtract without the check of the result
SubtractUnchecked(this, other) == Returned(this - other)

\* this.subtract(other), on the amounts
Subtract(this, other) ==
  LET result == this - other
  IN  IF result <= 0 THEN Threw("Token price must be positive") ELSE Returned(result)

\* quotient and remainder of a * f by SCALE_FACTOR, computed on halves of four
\* digits so that no intermediate value leaves the 32-bit range
MulDiv(a, f) ==
  LET B == 10000
      a1 == a \div B
      a0 == a % B
      f1 == f \div B
      f0 == f % B
      low == a0 * f0
      m == a1 * f0 + a0 * f1 + (low \div B)
  IN  [q |-> a1 * f1 + (m \div B), r |-> (m % B) * B + (low % B)]

\* this.multiply(factor), on the amount
Multiply(this, factor) ==
  IF factor.kind \in {"NaN", "Infinity"} THEN Threw("Invalid factor")
  ELSE IF NumberLeqZero(factor) THEN Threw("Token price must be positive")
  ELSE LET factorStr == NumberToString(factor)
           fi == SplitInt(factorStr)
           ff == PadEndSlice(SplitFrac(factorStr))
           digits == StripLeadingZeros(fi \o ff)
       IN  IF ~IsDigits(digits) THEN Threw("SyntaxError")
           ELSE LET qr == MulDiv(this, DigitsToInt(digits))
                    half == SCALE_FACTOR \div 2
                    rounded == IF qr.r >= half THEN qr.q + 1 ELSE qr.q
                IN  IF rounded <= 0 THEN Threw("Token price must be positive")
                    ELSE Returned(rounded)

Zeros(k) == [i \in 1..k |-> "0"]

\* the digits after the point that are tried: zeros followed by one of these tails
FracTails == {<<>>, <<"1">>, <<"5", "0">>, <<"1", "2", "3", "4", "5", "6", "7", "8">>}

FracStrs ==
  {f \in {Zeros(k) \o t : k \in 0..MaxFracDigits, t \in FracTails} : Len(f) <= MaxFracDigits}

IntStrs == {<<"0">>, <<"1">>, <<"0", "1">>, <<"-", "1">>}

StringInputs ==
  {Str(i) : i \in IntStrs} \cup {Str(i \o <<".">> \o f) : i \in IntStrs, f \in FracStrs}

NumberInputs ==
  {Num(neg, int, f) : neg \in BOOLEAN, int \in {<<"0">>, <<"1">>},
                      f \in {g \in FracStrs : StripTrailingZeros(g) = g}}
    \cup {Special("huge"), Special("NaN"), Special("Infinity")}

CreateInputs == StringInputs \cup NumberInputs

\* TokenPrice.create on every input tried
Created == [x \in CreateInputs |-> Create(x)]

\* the factors multiply is tried with
Factors ==
  {Num(FALSE, <<"2">>, <<>>), Num(FALSE, <<"1">>, <<"5">>), Num(FALSE, <<"0">>, <<"5">>),
   Num(FALSE, <<"0">>, <<"4">>), Num(FALSE, <<"0">>, <<"0", "0", "0", "0", "0", "0", "1">>),
   Num(FALSE, <<"0">>, <<>>), Num(TRUE, <<"1">>, <<>>), Special("NaN")}

\* the strings fromAmountString is tried with
AmountStrs == {<<"1">>, <<"0">>, <<"-", "1">>, <<>>, <<"1", ".", "5">>, <<"1", "5", "0", "0", "0", "0", "0", "0", "0">>}

\* the two prices a run of calls starts from
Operands == {Str(<<"1">>), Str(<<"0", ".", "5">>), Str(<<"0", ".", "0", "0", "0", "0", "0", "0", "0", "1">>)}

PriceInits ==
  {[TpIdle EXCEPT !.a = Create(x).amount, !.b = Create(y).amount] : x, y \in Operands}

\* the prices held after one call: its result is kept in place of a (or of b for
\* the factories) when it returns, and nothing is replaced when it throws
TpAfter(call, arg, result, intoA) ==
  [tp EXCEPT !.call = call, !.arg = arg, !.result = result,
             !.a = IF result.ok /\ intoA THEN result.amount ELSE @,
             !.b = IF result.ok /\ ~intoA THEN result.amount ELSE @,
             !.out = <<>>, !.calls = @ + 1]

TpCreate(x) ==
  /\ tp.calls < MaxPriceCalls
  /\ tp' = TpAfter("create", x, Created[x], FALSE)
  /\ UNCHANGED <<runVars, tk, op, ov, kp, ep>>

TpFromAmountString(s) ==
  /\ tp.calls < MaxPriceCalls
  /\ tp' = TpAfter("fromAmountString", Str(s), FromAmountString(s), FALSE)
  /\ UNCHANGED <<runVars, tk, op, ov, kp, ep>>

TpAdd ==
  /\ tp.calls < MaxPriceCalls
  /\ tp' = TpAfter("add", [type |-> "price", this |-> tp.a, other |-> tp.b],
                   Add(tp.a, tp.b), TRUE)
  /\ UNCHANGED <<runVars, tk, op, ov, kp, ep>>

TpSubtract(this, other) ==
  /\ tp.calls < MaxPriceCalls
  /\ tp' = TpAfter("subtract", [type |-> "price", this |-> this, other |-> other],
                   Subtract(this, other), TRUE)
  /\ UNCHANGED <<runVars, tk, op, ov, kp, ep>>

TpMultiply(f) ==
  /\ tp.calls < MaxPriceCalls
  /\ tp' = TpAfter("multiply",
                   [type |-> "factor", this |-> tp.a, kind |-> f.kind, neg |-> f.neg,
                    int |-> f.int, frac |-> f.frac],
                   Multiply(tp.a, f), TRUE)
  /\ UNCHANGED <<runVars, tk, op, ov, kp, ep>>

\* toString() of the price create has just returned
TpToString ==
  /\ tp.call = "create"
  /\ tp.result.ok
  /\ tp.calls < MaxPriceCalls
  /\ tp' = [tp EXCEPT !.call = "toString",
                       !.out = FormatAmountToDecimalString(tp.result.amount),
                       !.calls = @ + 1]
  /\ UNCHANGED <<runVars, tk, op, ov, kp, ep>>

\* ---- state after construction -------------------------------------------------
\* the stores a run may start from: up to MaxTokens rows whose symbols run through
\* SymbolSeq and whose prices run through 1..MaxPrice, each from any starting point
Stores ==
  UNION { { [id \in 1..n |->
               [symbol |-> SymbolSeq[1 + ((id + soff) % Len(SymbolSeq))],
                currentPrice |-> 1 + ((id + poff) % MaxPrice),
                lastPriceUpdateDateTime |-> 0]] :
            soff \in 0..(Len(SymbolSeq) - 1), poff \in 0..(MaxPrice - 1) } :
          n \in 0..MaxTokens }

InitRun ==
  /\ store \in Stores
  /\ initial = store
  /\ batchSize \in 1..MaxBatch
  /\ enabled \in BOOLEAN
  /\ pc = "idle"
  /\ cpc = "none"
  /\ cursor = 0
  /\ batch = <<>>
  /\ oracle = <<>>
  /\ results = <<>>
  /\ tokensToSave = <<>>
  /\ allEvents = <<>>
  /\ totalProcessed = 0
  /\ updatedCount = 0
  /\ errorCount = 0
  /\ saveAttempts = 0
  /\ clock = 0
  /\ sent = {}
  /\ sendCalls = 0
  /\ reads = <<>>
  /\ delivered = <<>>
  /\ publishOk = {}
  /\ publishRejected = {}
  /\ saveInvoked = {}
  /\ saveRejected = {}
  /\ hadEvents = {}
  /\ oracleLog = <<>>
  /\ readFailed = FALSE
  /\ thrown = "none"
  /\ completedMetric = 0
  /\ failedMetric = 0
  /\ sendRejected = {}
  /\ spanRecorded = 0

\* a run of the service: no Token and no retry call is exercised on its own
Init ==
  /\ InitRun
  /\ tk = TkIdle
  /\ op = OpIdle
  /\ ov = OvIdle
  /\ tp = TpIdle
  /\ kp = KpIdle
  /\ ep = EpIdle

\* a Token restored from a row, with no run of the service going on
InitToken ==
  /\ InitRun
  /\ store = <<>>
  /\ batchSize = 1
  /\ ~enabled
  /\ op = OpIdle
  /\ ov = OvIdle
  /\ tp = TpIdle
  /\ kp = KpIdle
  /\ ep = EpIdle
  /\ tk \in { [call |-> "restore", arg |-> 0, at |-> 0, now |-> 0, before |-> t,
               token |-> t, enq |-> <<>>, pulls |-> <<>>] : t \in TokenInits }

\* a retry call, with no run of the service going on
InitRetry ==
  /\ InitRun
  /\ store = <<>>
  /\ batchSize = 1
  /\ ~enabled
  /\ tk = TkIdle
  /\ ov = OvIdle
  /\ tp = TpIdle
  /\ kp = KpIdle
  /\ ep = EpIdle
  /\ op \in RetryInits

\* ---- fragments shared by the actions -------------------------------------------
\* variant: the failing path records the summary metric as well
RejectAlsoCompleted(kind) ==
  /\ pc' = "failed"
  /\ thrown' = kind
  /\ failedMetric' = failedMetric + 1
  /\ completedMetric' = completedMetric + 1
  /\ spanRecorded' = spanRecorded + 1

\* execute's catch block: the failed metric is recorded and the error rethrown;
\* the finally block records the span
Reject(kind) ==
  /\ pc' = "failed"
  /\ thrown' = kind
  /\ failedMetric' = failedMetric + 1
  /\ spanRecorded' = spanRecorded + 1
  /\ UNCHANGED completedMetric

\* processAll returned: execute logs the summary and records the completed metric;
\* the finally block records the span
Complete ==
  /\ pc' = "completed"
  /\ completedMetric' = completedMetric + 1
  /\ spanRecorded' = spanRecorded + 1
  /\ UNCHANGED <<thrown, failedMetric>>

\* the callback moves on to its next step; a throw leaves processAll and execute
CallbackStep(next, kind) ==
  /\ saveInvoked' = IF next = "save" THEN saveInvoked \cup {BatchNo} ELSE saveInvoked
  /\ saveAttempts' = 0
  /\ totalProcessed' = IF next = "returned" THEN totalProcessed + Len(batch)
                       ELSE totalProcessed
  /\ IF next = "threw"
     THEN cpc' = "none" /\ Reject(kind)
     ELSE cpc' = next /\ UNCHANGED <<pc, thrown, failedMetric, completedMetric, spanRecorded>>

\* ---- actions ---------------------------------------------------------------------
\* execute is called: processAll issues its first findMany
Execute ==
  /\ pc = "idle"
  /\ pc' = "read"
  /\ UNCHANGED <<store, initial, tk, op, ov, tp, kp, ep, batchSize, enabled, sendRejected, cpc, cursor, batch, oracle,
                 results, tokensToSave, allEvents, totalProcessed, updatedCount,
                 errorCount, saveAttempts, clock, sent, sendCalls, reads, delivered,
                 publishOk, publishRejected, saveInvoked, saveRejected, hadEvents, oracleLog,
                 readFailed, thrown, completedMetric, failedMetric, spanRecorded>>

\* findMany returns no row: break, processAll returns
ReadEmpty ==
  /\ pc = "read"
  /\ FindMany(Len(store), cursor, batchSize) = <<>>
  /\ reads' = Append(reads, 0)
  /\ Complete
  /\ UNCHANGED <<store, initial, tk, op, ov, tp, kp, ep, batchSize, enabled, sendRejected, cpc, cursor, batch, oracle,
                 results, tokensToSave, allEvents, totalProcessed, updatedCount,
                 errorCount, saveAttempts, clock, sent, sendCalls, delivered,
                 publishOk, publishRejected, saveInvoked, saveRejected, hadEvents, oracleLog,
                 readFailed>>

\* findMany returns rows: they are mapped to Tokens and the callback starts,
\* issuing getPriceForToken for every token of the batch
ReadBatch ==
  /\ pc = "read"
  /\ LET ids == FindMany(Len(store), cursor, batchSize)
     IN  /\ ids # <<>>
         /\ reads' = Append(reads, Len(ids))
         /\ delivered' = Append(delivered, ids)
         /\ batch' = [i \in 1..Len(ids) |-> MapToDomain(ids[i], store[ids[i]])]
         /\ oracle' = [i \in 1..Len(ids) |-> Pending]
         /\ results' = [i \in 1..Len(ids) |-> "pending"]
  /\ pc' = "await"
  /\ cpc' = "oracle"
  /\ clock' = clock + 1
  /\ tokensToSave' = <<>>
  /\ allEvents' = <<>>
  /\ UNCHANGED <<store, initial, tk, op, ov, tp, kp, ep, batchSize, enabled, sendRejected, cursor, totalProcessed,
                 updatedCount, errorCount, saveAttempts, sent, sendCalls,
                 publishOk, publishRejected, saveInvoked, saveRejected, hadEvents, oracleLog,
                 readFailed, thrown, completedMetric, failedMetric, spanRecorded>>

\* findMany rejects: processAll has no catch, execute's catch records and rethrows
ReadFail ==
  /\ pc = "read"
  /\ readFailed' = TRUE
  /\ IF OnReadRejected = "failed" THEN Reject("cursor") ELSE Complete
  /\ UNCHANGED <<store, initial, tk, op, ov, tp, kp, ep, batchSize, enabled, sendRejected, cpc, cursor, batch, oracle,
                 results, tokensToSave, allEvents, totalProcessed, updatedCount,
                 errorCount, saveAttempts, clock, sent, sendCalls, reads, delivered,
                 publishOk, publishRejected, saveInvoked, saveRejected, hadEvents, oracleLog>>

\* one getPriceForToken call settles; on success token.updatePrice runs
OracleSettle(i, o) ==
  /\ cpc = "oracle"
  /\ oracle[i] = Pending
  /\ oracle' = [oracle EXCEPT ![i] = o]
  /\ results' = [results EXCEPT ![i] = SettledStatus(o)]
  /\ batch' = IF SettledStatus(o) = "fulfilled"
              THEN [batch EXCEPT ![i] = UpdatePrice(@, o.price, clock)]
              ELSE batch
  /\ oracleLog' = (batch[i].id :> o) @@ oracleLog
  /\ UNCHANGED <<store, initial, tk, op, ov, tp, kp, ep, batchSize, enabled, sendRejected, pc, cpc, cursor,
                 tokensToSave, allEvents, totalProcessed, updatedCount,
                 errorCount, saveAttempts, clock, sent, sendCalls, reads, delivered,
                 publishOk, publishRejected, saveInvoked, saveRejected, hadEvents,
                 readFailed, thrown, completedMetric, failedMetric, spanRecorded>>

\* variant: the callback goes on as soon as one call has settled
AnySettled(res) == \E i \in 1..Len(res) : res[i] # "pending"

\* await Promise.allSettled(...): every promise of the batch has settled
AllSettled(res) == \A i \in 1..Len(res) : res[i] # "pending"

\* Promise.allSettled resolves: results.forEach, then publish or saveBatch is called
Collect ==
  /\ cpc = "oracle"
  /\ AllSettled(results)
  /\ LET toSave == TokensToSave(batch, results)
         events == AllEvents(batch, results)
     IN  /\ tokensToSave' = toSave
         /\ allEvents' = events
         /\ batch' = [i \in 1..Len(batch) |->
                        IF results[i] = "fulfilled" THEN Pulled(batch[i]) ELSE batch[i]]
         /\ updatedCount' = updatedCount + UpdatedIn(batch, results)
         /\ errorCount' = errorCount + CountOf(results, "rejected")
         /\ hadEvents' = IF events # <<>> THEN hadEvents \cup {BatchNo} ELSE hadEvents
         /\ CallbackStep(AfterCollect(events, toSave), "none")
  /\ UNCHANGED <<store, initial, tk, op, ov, tp, kp, ep, batchSize, enabled, sendRejected, cursor, oracle, results,
                 clock, sent, sendCalls, reads, delivered, publishOk, publishRejected,
                 saveRejected, oracleLog, readFailed>>

\* the step after repo.saveBatch rejected: the await throws out of the callback
OnSaveRejected == "threw"

\* bus.publish returned: the callback goes on to saveBatch
PublishReturns ==
  /\ publishOk' = publishOk \cup {BatchNo}
  /\ CallbackStep(AfterPublish(tokensToSave), "none")

\* publish -> retry -> sendPriceUpdateBatch -> producer.send completes without error
KafkaSendOk ==
  /\ cpc = "publish"
  /\ SendOf(allEvents) # <<>>
  /\ sent' = sent \cup Range(SendOf(allEvents))
  /\ sendCalls' = sendCalls + 1
  /\ PublishReturns
  /\ UNCHANGED <<store, initial, tk, op, ov, tp, kp, ep, batchSize, enabled, sendRejected, cursor, batch, oracle, results,
                 tokensToSave, allEvents, updatedCount, errorCount, clock, reads,
                 delivered, publishRejected, saveRejected, hadEvents, oracleLog, readFailed>>

\* producer.send rejects: sendPriceUpdateBatch's catch logs the error and returns,
\* so retry sees a resolved attempt and publish returns
KafkaSendReject ==
  /\ cpc = "publish"
  /\ SendOf(allEvents) # <<>>
  /\ sendCalls' = sendCalls + 1
  /\ sendRejected' = sendRejected \cup {BatchNo}
  /\ PublishReturns
  /\ UNCHANGED <<store, initial, tk, op, ov, tp, kp, ep, batchSize, enabled, cursor, batch, oracle, results,
                 tokensToSave, allEvents, updatedCount, errorCount, clock, sent, reads,
                 delivered, publishRejected, saveRejected, hadEvents, oracleLog, readFailed>>

\* producer disabled, or every message filtered out as invalid: nothing is sent
KafkaNoSend ==
  /\ cpc = "publish"
  /\ SendOf(allEvents) = <<>>
  /\ PublishReturns
  /\ UNCHANGED <<store, initial, tk, op, ov, tp, kp, ep, batchSize, enabled, sendRejected, cursor, batch, oracle, results,
                 tokensToSave, allEvents, updatedCount, errorCount, clock, sent,
                 sendCalls, reads, delivered, publishRejected, saveRejected,
                 hadEvents, oracleLog, readFailed>>

\* a DomainEventBus whose publish rejects (its retries exhausted)
BusPublishRejects ==
  /\ cpc = "publish"
  /\ publishRejected' = publishRejected \cup {BatchNo}
  /\ CallbackStep(OnPublishRejected(tokensToSave), "publish")
  /\ UNCHANGED <<store, initial, tk, op, ov, tp, kp, ep, batchSize, enabled, sendRejected, cursor, batch, oracle, results,
                 tokensToSave, allEvents, updatedCount, errorCount, clock, sent,
                 sendCalls, reads, delivered, publishOk, saveRejected, hadEvents, oracleLog,
                 readFailed>>

\* variant: the updates are applied one by one and the batch stops after the first
SavedStoreFirstOnly(st, tokens) ==
  [id \in DOMAIN st |->
     IF tokens # <<>> /\ tokens[1].id = id
     THEN [st[id] EXCEPT !.currentPrice = TokenPriceGetValue(tokens[1].price),
                         !.lastPriceUpdateDateTime = tokens[1].time]
     ELSE st[id]]

\* variant: the update has no "where" and writes the first token's values to every row
SavedStoreEveryRow(st, tokens) ==
  [id \in DOMAIN st |->
     IF tokens # <<>>
     THEN [st[id] EXCEPT !.currentPrice = TokenPriceGetValue(tokens[1].price),
                         !.lastPriceUpdateDateTime = tokens[1].time]
     ELSE st[id]]

\* variant: the update writes currentPrice only
SavedStorePriceOnly(st, tokens) ==
  [id \in DOMAIN st |->
     IF \E k \in 1..Len(tokens) : tokens[k].id = id
     THEN LET t == CHOOSE t \in Range(tokens) : t.id = id
          IN  [st[id] EXCEPT !.currentPrice = TokenPriceGetValue(t.price)]
     ELSE st[id]]

\* saveBatch: the rows written by the $transaction of token.update calls
SavedStore(st, tokens) ==
  [id \in DOMAIN st |->
     IF \E k \in 1..Len(tokens) : tokens[k].id = id
     THEN LET t == CHOOSE t \in Range(tokens) : t.id = id
          IN  [st[id] EXCEPT !.currentPrice = TokenPriceGetValue(t.price),
                             !.lastPriceUpdateDateTime = t.time]
     ELSE st[id]]

\* an attempt of saveBatch's $transaction commits; the callback returns
SaveOk ==
  /\ cpc = "save"
  /\ store' = SavedStore(store, tokensToSave)
  /\ CallbackStep("returned", "none")
  /\ UNCHANGED <<initial, tk, op, ov, tp, kp, ep, batchSize, enabled, sendRejected, cursor, batch, oracle, results,
                 tokensToSave, allEvents, updatedCount, errorCount, clock, sent,
                 sendCalls, reads, delivered, publishOk, publishRejected,
                 saveRejected, hadEvents, oracleLog, readFailed>>

\* an attempt of saveBatch's $transaction fails and retry schedules the next one
SaveRetry ==
  /\ cpc = "save"
  /\ saveAttempts < SaveBatchRetries
  /\ saveAttempts' = saveAttempts + 1
  /\ UNCHANGED <<store, initial, tk, op, ov, tp, kp, ep, batchSize, enabled, sendRejected, pc, cpc, cursor, batch, oracle,
                 results, tokensToSave, allEvents, totalProcessed, updatedCount,
                 errorCount, clock, sent, sendCalls, reads, delivered,
                 publishOk, publishRejected, saveInvoked, saveRejected, hadEvents, oracleLog,
                 readFailed, thrown, completedMetric, failedMetric, spanRecorded>>

\* the last attempt fails too: saveBatch rejects
SaveRejects ==
  /\ cpc = "save"
  /\ saveAttempts = SaveBatchRetries
  /\ saveRejected' = saveRejected \cup {BatchNo}
  /\ CallbackStep(OnSaveRejected, "save")
  /\ UNCHANGED <<store, initial, tk, op, ov, tp, kp, ep, batchSize, enabled, sendRejected, cursor, batch, oracle, results,
                 tokensToSave, allEvents, updatedCount, errorCount, clock, sent,
                 sendCalls, reads, delivered, publishOk, publishRejected,
                 hadEvents, oracleLog, readFailed>>

\* variant: the cursor is set to the first row of the batch
NextCursorFirstRow(b) == b[1].id

\* "cursor = rows[rows.length - 1].id"
NextCursor(b) == b[Len(b)].id

\* the callback returned: processAll moves the cursor, then breaks or reads on
Resume ==
  /\ pc = "await"
  /\ CallbackAwaited(cpc)
  /\ cursor' = NextCursor(batch)
  /\ IF IsLastBatch(Len(batch), batchSize)
     THEN Complete
     ELSE pc' = "read" /\ UNCHANGED <<thrown, failedMetric, completedMetric, spanRecorded>>
  /\ UNCHANGED <<store, initial, tk, op, ov, tp, kp, ep, batchSize, enabled, sendRejected, cpc, batch, oracle, results,
                 tokensToSave, allEvents, totalProcessed, updatedCount, errorCount,
                 saveAttempts, clock, sent, sendCalls, reads, delivered,
                 publishOk, publishRejected, saveInvoked, saveRejected, hadEvents, oracleLog,
                 readFailed>>

Settle == \E i \in 1..Len(batch) : \E o \in OracleOutcomes : OracleSettle(i, o)

\* the service as wired: KafkaEventBus over KafkaProducerService
Next ==
  \/ Execute
  \/ ReadEmpty
  \/ ReadBatch
  \/ ReadFail
  \/ Settle
  \/ Collect
  \/ KafkaSendOk
  \/ KafkaSendReject
  \/ KafkaNoSend
  \/ SaveOk
  \/ SaveRetry
  \/ SaveRejects
  \/ Resume

Spec == Init /\ [][Next]_vars

\* a run whose calls all return: every findMany, every getPriceForToken, every
\* publish and every saveBatch attempt that is outstanding is eventually answered,
\* and the code between two awaits runs on
Fairness ==
  /\ WF_vars(ReadEmpty \/ ReadBatch \/ ReadFail)
  /\ WF_vars(Settle)
  /\ WF_vars(Collect)
  /\ WF_vars(KafkaSendOk \/ KafkaSendReject \/ KafkaNoSend)
  /\ WF_vars(SaveOk \/ SaveRetry \/ SaveRejects)
  /\ WF_vars(Resume)

InitLive == Init /\ Len(store) <= MaxLiveTokens

SpecLive == InitLive /\ [][Next]_vars /\ Fairness

\* the handler against any implementation of the DomainEventBus port
NextPort == Next \/ BusPublishRejects

SpecPort == Init /\ [][NextPort]_vars

\* ---- overlapping runs: the steps of each run ---------------------------------
\* the execute calls that may be in progress at once: one started by the scheduler's
\* cron tick, one by POST trigger-update (or by the next tick)
Runs == {"scheduler", "trigger"}

InProgress == {"read", "oracle", "publish", "save", "returned"}

\* variant: execute is skipped while another run is in progress
MayStartWhenNoneRunning(runs, r) == \A q \in Runs : runs[q].pc \notin InProgress

\* handlePriceUpdate and triggerUpdate call execute without looking at any run in
\* progress, and execute takes no lock
MayStart(runs, r) == TRUE

RunIdle ==
  [pc |-> "idle", cursor |-> 0, batch |-> <<>>, tokensToSave |-> <<>>,
   allEvents |-> <<>>, published |-> {}, persisted |-> {}]

\* the stores two runs are exercised over
\* (rows with a ticker symbol, whose events the producer does not filter out)
OverlapStores ==
  UNION { { [id \in 1..n |->
               [symbol |-> SymbolSeq[1],
                currentPrice |-> 1 + ((id + poff) % MaxPrice),
                lastPriceUpdateDateTime |-> 0]] : poff \in 0..(MaxPrice - 1) } :
          n \in 1..MaxOverlapTokens }

\* outcomes of getPriceForToken in the two runs: an error or a valid price
OverlapOutcomes ==
  {OracleError} \cup { [kind |-> "price", price |-> p] : p \in 1..MaxPrice }

OverlapInits ==
  { [store |-> st, clock |-> 0, run |-> [r \in Runs |-> RunIdle]] : st \in OverlapStores }

\* a trigger fires: execute starts and processAll issues its first findMany
OvExecute(r) ==
  /\ ov.run[r].pc = "idle"
  /\ MayStart(ov.run, r)
  /\ ov' = [ov EXCEPT !.run[r].pc = "read"]
  /\ UNCHANGED <<runVars, tk, op, tp, kp, ep>>

\* processAll's findMany returns: no row ends the run, rows start the callback
OvRead(r) ==
  /\ ov.run[r].pc = "read"
  /\ LET ids == FindMany(Len(ov.store), ov.run[r].cursor, batchSize)
     IN  IF ids = <<>>
         THEN ov' = [ov EXCEPT !.run[r].pc = "completed"]
         ELSE ov' = [ov EXCEPT
                       !.clock = @ + 1,
                       !.run[r].pc = "oracle",
                       !.run[r].tokensToSave = <<>>,
                       !.run[r].allEvents = <<>>,
                       !.run[r].batch =
                          [i \in 1..Len(ids) |-> MapToDomain(ids[i], ov.store[ids[i]])]]
  /\ UNCHANGED <<runVars, tk, op, tp, kp, ep>>

\* findMany rejects: the run ends failed
OvReadFail(r) ==
  /\ ov.run[r].pc = "read"
  /\ ov' = [ov EXCEPT !.run[r].pc = OnReadRejected]
  /\ UNCHANGED <<runVars, tk, op, tp, kp, ep>>

\* Promise.allSettled resolves with the outcomes outs of the batch's oracle calls:
\* updatePrice on the fulfilled tokens, results.forEach, then publish or saveBatch
OvCollect(r, outs) ==
  /\ ov.run[r].pc = "oracle"
  /\ LET b   == ov.run[r].batch
         res == [i \in 1..Len(b) |-> SettledStatus(outs[i])]
         upd == [i \in 1..Len(b) |->
                   IF res[i] = "fulfilled"
                   THEN UpdatePrice(b[i], outs[i].price, ov.clock) ELSE b[i]]
         toSave == TokensToSave(upd, res)
         events == AllEvents(upd, res)
     IN  ov' = [ov EXCEPT
                  !.run[r].pc = AfterCollect(events, toSave),
                  !.run[r].tokensToSave = toSave,
                  !.run[r].allEvents = events,
                  !.run[r].batch =
                     [i \in 1..Len(b) |->
                        IF res[i] = "fulfilled" THEN Pulled(upd[i]) ELSE upd[i]]]
  /\ UNCHANGED <<runVars, tk, op, tp, kp, ep>>

\* bus.publish returns: the send was accepted (ok) or not made or swallowed
OvPublish(r, ok) ==
  /\ ov.run[r].pc = "publish"
  /\ ok => SendOf(ov.run[r].allEvents) # <<>>
  /\ LET msgs == SendOf(ov.run[r].allEvents)
     IN  ov' = [ov EXCEPT
                  !.run[r].pc = AfterPublish(ov.run[r].tokensToSave),
                  !.run[r].published =
                     IF ok THEN @ \cup { msgs[k].tokenId : k \in 1..Len(msgs) } ELSE @]
  /\ UNCHANGED <<runVars, tk, op, tp, kp, ep>>

\* saveBatch commits, or rejects after its retries
OvSave(r, ok) ==
  /\ ov.run[r].pc = "save"
  /\ LET toSave == ov.run[r].tokensToSave
         after == SavedStore(ov.store, toSave)
     IN  IF ok
         THEN ov' = [ov EXCEPT
                       !.store = after,
                       !.run[r].pc = "returned",
                       !.run[r].persisted =
                          @ \cup { toSave[k].id : k \in 1..Len(toSave) }]
         ELSE ov' = [ov EXCEPT !.run[r].pc = "failed"]
  /\ UNCHANGED <<runVars, tk, op, tp, kp, ep>>

\* the callback returned: processAll moves the cursor, then breaks or reads on
OvResume(r) ==
  /\ ov.run[r].pc = "returned"
  /\ LET b == ov.run[r].batch
     IN  ov' = [ov EXCEPT
                  !.run[r].cursor = b[Len(b)].id,
                  !.run[r].pc = IF IsLastBatch(Len(b), batchSize)
                                THEN "completed" ELSE "read"]
  /\ UNCHANGED <<runVars, tk, op, tp, kp, ep>>

\* two execute calls over one store, none started yet, the producer enabled
InitOverlap ==
  /\ InitRun
  /\ store = <<>>
  /\ enabled
  /\ tk = TkIdle
  /\ op = OpIdle
  /\ tp = TpIdle
  /\ kp = KpIdle
  /\ ep = EpIdle
  /\ ov \in OverlapInits

\* a Token object under any sequence of updatePrice and pullEvents calls
NextToken ==
  \/ \E p \in OraclePrices : TokenUpdatePrice(p)
  \/ TokenPullEvents

SpecToken == InitToken /\ [][NextToken]_vars

\* one retry(fn, opts) call, fn failing or succeeding at will
NextRetry ==
  \/ RetryFnResolves
  \/ \E m \in ErrorMessages : RetryFnRejects(m)
  \/ RetryTick
  \/ RetryTimerFires

SpecRetry == InitRetry /\ [][NextRetry]_vars

\* two execute calls, each started at any moment
NextOverlap ==
  \E r \in Runs :
    \/ OvExecute(r)
    \/ OvRead(r)
    \/ OvReadFail(r)
    \/ \E outs \in [1..Len(ov.run[r].batch) -> OverlapOutcomes] : OvCollect(r, outs)
    \/ \E ok \in BOOLEAN : OvPublish(r, ok)
    \/ \E ok \in BOOLEAN : OvSave(r, ok)
    \/ OvResume(r)

SpecOverlap == InitOverlap /\ [][NextOverlap]_vars

\* ---- the entry points of a run -------------------------------------------------------
\* INTERNAL_JOB_TOKEN ("" when unset) and the x-internal-job-token header ("none"
\* when the request has no such header)
JobTokens == {"", "secret"}
Headers == {"none", "secret", "wrong"}

\* variant: the catch of handlePriceUpdate rethrows
TickOutcomeRethrows(executeOk) == IF executeOk THEN "resolved" ELSE "rejected"

\* handlePriceUpdate after execute settled: its try/catch logs either way
TickOutcome(executeOk) == "resolved"

\* triggerUpdate's check: "if (!expected || jobToken !== expected)" in production
Forbidden(env, expected, header) ==
  env = "production" /\ (expected = "" \/ header # expected)

\* the HTTP status of triggerUpdate's answer: every throw inside its try, the
\* Forbidden exception included, reaches the catch that throws
\* HttpException(INTERNAL_SERVER_ERROR)
TriggerStatus(forbidden, executeOk) ==
  IF forbidden THEN 500 ELSE IF executeOk THEN 201 ELSE 500

\* a cron tick calls handlePriceUpdate
EpTick ==
  /\ ep.phase # "executing"
  /\ ep.calls < MaxEntryCalls
  /\ ep' = IF ~ep.isEnabled
           THEN [ep EXCEPT !.call = "tick", !.phase = "done", !.outcome = "resolved",
                           !.status = 0, !.calls = @ + 1]
           ELSE [ep EXCEPT !.call = "tick", !.phase = "executing", !.outcome = "none",
                           !.status = 0, !.execByTick = @ + 1, !.calls = @ + 1]
  /\ UNCHANGED <<runVars, tk, op, ov, tp, kp>>

\* POST /pricing/trigger-update arrives
EpTrigger(header) ==
  /\ ep.phase # "executing"
  /\ ep.calls < MaxEntryCalls
  /\ ep' = IF Forbidden(ep.env, ep.expected, header)
           THEN [ep EXCEPT !.call = "trigger", !.header = header, !.phase = "done",
                           !.outcome = "rejected",
                           !.status = TriggerStatus(TRUE, FALSE), !.calls = @ + 1]
           ELSE [ep EXCEPT !.call = "trigger", !.header = header, !.phase = "executing",
                           !.outcome = "none", !.status = 0,
                           !.execByTrigger = @ + 1, !.calls = @ + 1]
  /\ UNCHANGED <<runVars, tk, op, ov, tp, kp>>

\* the execute call awaited by the entry point resolves or rejects
EpExecuteSettles(executeOk) ==
  /\ ep.phase = "executing"
  /\ ep' = [ep EXCEPT !.phase = "done",
                       !.failures = IF executeOk THEN @ ELSE @ + 1,
                       !.outcome = IF ep.call = "tick" THEN TickOutcome(executeOk)
                                   ELSE IF executeOk THEN "resolved" ELSE "rejected",
                       !.status = IF ep.call = "tick" THEN 0
                                  ELSE TriggerStatus(FALSE, executeOk)]
  /\ UNCHANGED <<runVars, tk, op, ov, tp, kp>>

\* the scheduler and the controller as configured, one call at a time
InitEntry ==
  /\ InitRun
  /\ store = <<>>
  /\ batchSize = 1
  /\ ~enabled
  /\ tk = TkIdle
  /\ op = OpIdle
  /\ ov = OvIdle
  /\ tp = TpIdle
  /\ kp = KpIdle
  /\ ep \in {[EpIdle EXCEPT !.isEnabled = on, !.env = env, !.expected = tok] :
               on \in BOOLEAN, env \in Envs, tok \in JobTokens}

NextEntry ==
  \/ EpTick
  \/ \E header \in Headers : EpTrigger(header)
  \/ \E executeOk \in BOOLEAN : EpExecuteSettles(executeOk)

SpecEntry == InitEntry /\ [][NextEntry]_vars

\* the producer from its construction on
InitProducer ==
  /\ InitRun
  /\ store = <<>>
  /\ batchSize = 1
  /\ ~enabled
  /\ tk = TkIdle
  /\ op = OpIdle
  /\ ov = OvIdle
  /\ tp = TpIdle
  /\ ep = EpIdle
  /\ kp = KpIdle

NextProducer ==
  \/ \E env \in Envs, connects \in BOOLEAN : KpOnModuleInit(env, connects)
  \/ \E m \in Messages, ok \in BOOLEAN : KpSendMessage(m, ok)
  \/ \E ms \in MessageBatches, ok \in BOOLEAN : KpSendBatch(ms, ok)
  \/ \E ms \in MessageBatches, ok \in BOOLEAN : KpPublish(ms, ok)

SpecProducer == InitProducer /\ [][NextProducer]_vars

\* TokenPrice values under any sequence of calls
InitPrice ==
  /\ InitRun
  /\ store = <<>>
  /\ batchSize = 1
  /\ ~enabled
  /\ tk = TkIdle
  /\ op = OpIdle
  /\ ov = OvIdle
  /\ tp \in PriceInits
  /\ kp = KpIdle
  /\ ep = EpIdle

NextPrice ==
  \/ \E x \in CreateInputs : TpCreate(x)
  \/ \E s \in AmountStrs : TpFromAmountString(s)
  \/ TpAdd
  \/ TpSubtract(tp.a, tp.b)
  \/ TpSubtract(tp.b, tp.a)
  \/ \E f \in Factors : TpMultiply(f)
  \/ TpToString

SpecPrice == InitPrice /\ [][NextPrice]_vars

\* ==== properties ==================================================================
N == Len(store)

CeilDiv(a, b) == (a + b - 1) \div b

CallbackActive == cpc \in {"oracle", "publish", "save"}

\* the callback is past results.forEach for the current batch
Collected == cpc \in {"publish", "save", "returned"}

\* ids whose price fetch failed: the oracle call rejected or returned invalid data
OracleFailedIds ==
  { id \in DOMAIN oracleLog :
      oracleLog[id].kind = "error" \/ oracleLog[id].price <= 0 }

BatchIds == [i \in 1..Len(batch) |-> batch[i].id]

\* C1: for every batch whose collected event list is non-empty, repo.saveBatch is
\* invoked only after bus.publish for that batch has returned successfully.
C1_PublishBeforeSave ==
  \A b \in saveInvoked : b \in hadEvents => b \in publishOk /\ b \notin publishRejected

C1_Witness ==
  \E b \in saveInvoked : b \in hadEvents /\ b \in publishOk /\ cpc = "save"

\* C2: every token whose changed price saveBatch has committed has had its
\* PriceUpdated event accepted by the transport (a producer.send containing it
\* completed without error) beforehand.
C2_NoChangePersistedWithoutAcceptedEvent ==
  \A id \in DOMAIN store :
     store[id].currentPrice # initial[id].currentPrice =>
       \E m \in sent : m.tokenId = id /\ m.newPrice = store[id].currentPrice

\* C3: if bus.publish rejects for a batch, saveBatch is never called for that batch
\* and the stored price and update time of each of its tokens are left unchanged.
C3_PublishFailureLeavesBatchUnsaved ==
  \A b \in publishRejected :
     /\ b \notin saveInvoked
     /\ \A k \in 1..Len(delivered[b]) : store[delivered[b][k]] = initial[delivered[b][k]]

C3_Witness ==
  \E b \in publishRejected : b > 1 /\ store # initial /\ pc = "failed"

\* C4: a publish failure for one batch is not fatal to the run: execute does not
\* end in the failed outcome and does not propagate the publish error.
C4_PublishFailureNotFatal ==
  publishRejected # {} => pc # "failed" /\ thrown = "none" /\ failedMetric = 0

\* C5: a saveBatch failure (after its 3 retries) is not fatal to the run: execute
\* does not end in the failed outcome and does not reject.
C5_SaveFailureNotFatal ==
  saveRejected # {} => pc # "failed" /\ thrown = "none" /\ failedMetric = 0

\* C6: oracle failures are isolated per token: of a batch of n tokens with k failed
\* price fetches exactly the other n-k tokens go to saveBatch, errorCount grows by
\* exactly k, the failing tokens are neither persisted nor produce events, and the
\* run does not abort.
C6_OracleFailuresIsolated ==
  /\ Collected =>
       /\ pc # "failed" \/ readFailed
       /\ [k \in 1..Len(tokensToSave) |-> tokensToSave[k].id]
            = SelectSeq(BatchIds, LAMBDA id : id \notin OracleFailedIds)
       /\ Len(tokensToSave) = Len(batch) - Cardinality(Range(BatchIds) \cap OracleFailedIds)
       /\ errorCount = Cardinality(OracleFailedIds)
       /\ \A k \in 1..Len(allEvents) : allEvents[k].tokenId \notin OracleFailedIds
       /\ cpc # "publish" => (BatchNo \in saveInvoked) = (tokensToSave # <<>>)
  /\ \A id \in OracleFailedIds :
       /\ store[id] = initial[id]
       /\ \A m \in sent : m.tokenId # id

C6_Witness ==
  /\ cpc = "save"
  /\ Len(batch) = 2
  /\ Len(tokensToSave) = 1
  /\ Cardinality(Range(BatchIds) \cap OracleFailedIds) = 1
  /\ errorCount >= 1

\* C7: a rejected cursor read is fatal: no further batch is read or processed, the
\* failed metric is recorded, execute rejects with that error, and what was
\* persisted before stays persisted.
C7_CursorReadFailureFatal ==
  /\ [](readFailed =>
          /\ pc = "failed"
          /\ thrown = "cursor"
          /\ failedMetric = 1
          /\ completedMetric = 0
          /\ ~CallbackActive)
  /\ [][readFailed' => store' = store /\ delivered' = delivered /\ reads' = reads]_vars

C7_Witness ==
  readFailed /\ pc = "failed" /\ store # initial /\ BatchNo >= 1

\* C8: over an unmodified store of N tokens processAll delivers the tokens in
\* ascending id order, each exactly once, in ceil(N/batchSize) batches, all but
\* possibly the last of exactly batchSize tokens.
C8_BatchesCoverStoreOnce ==
  LET flat == Flatten(delivered)
  IN  /\ flat = [i \in 1..Len(flat) |-> i]
      /\ Len(flat) <= N
      /\ \A b \in 1..Len(delivered) :
           /\ Len(delivered[b]) >= 1
           /\ Len(delivered[b]) <= batchSize
           /\ b < Len(delivered) => Len(delivered[b]) = batchSize
      /\ pc = "completed" =>
           /\ Len(flat) = N
           /\ Len(delivered) = CeilDiv(N, batchSize)

C8_Witness ==
  /\ pc = "completed"
  /\ Len(delivered) = 2
  /\ Len(delivered[1]) = batchSize
  /\ Len(delivered[2]) < batchSize

\* C9: processAll stops at the first empty or short read: the callback never gets
\* an empty batch, no read follows a short or empty one, and a store whose size is
\* a positive multiple of batchSize costs exactly one extra, empty read.
C9_StopsAtShortOrEmptyRead ==
  /\ \A b \in 1..Len(delivered) : delivered[b] # <<>>
  /\ \A r \in 1..Len(reads) :
       (r < Len(reads) \/ pc = "read") => reads[r] = batchSize
  /\ pc = "completed" =>
       /\ Len(reads) = IF N % batchSize = 0 THEN (N \div batchSize) + 1
                       ELSE CeilDiv(N, batchSize)
       /\ (N % batchSize = 0) = (reads[Len(reads)] = 0)

C9_Witness ==
  /\ pc = "completed"
  /\ N > batchSize
  /\ N % batchSize = 0
  /\ Len(reads) = (N \div batchSize) + 1
  /\ reads[Len(reads)] = 0

\* C10: batches are processed strictly sequentially: while a read is in flight no
\* oracle call, publish or saveBatch of any batch is in progress, and the steps in
\* progress always belong to the batch read last.
C10_BatchesSequential ==
  /\ pc = "read" => ~CallbackActive
  /\ CallbackActive =>
       /\ pc = "await"
       /\ BatchIds = delivered[BatchNo]
       /\ \A b \in saveInvoked \cup publishOk \cup hadEvents : b <= BatchNo
  /\ pc = "read" /\ BatchNo >= 1 => cursor = delivered[BatchNo][Len(delivered[BatchNo])]

C10_Witness ==
  pc = "read" /\ BatchNo >= 1 /\ cpc = "returned" /\ BatchNo \in saveInvoked

\* the getPriceForToken calls of the current batch that are in flight
InFlight == Cardinality({ i \in 1..Len(oracle) : oracle[i] = Pending })

\* a worker limit below the largest batch size (as the default 10 is below 100)
ConcurrencyLimit == MaxBatch - 1

\* C11: at every moment of a run the number of getPriceForToken calls in flight is
\* at most the concurrency limit, whatever the batch size.
C11_OracleCallsBounded ==
  cpc = "oracle" => InFlight <= ConcurrencyLimit

\* ids whose oracle call returned a valid price different from the price read
ChangedIds ==
  { id \in DOMAIN oracleLog :
      /\ id \notin OracleFailedIds
      /\ oracleLog[id].price # initial[id].currentPrice }

\* C12: the events handed to bus.publish for a batch are exactly one PriceUpdated
\* event per token of the batch whose oracle price differs from its current price,
\* in batch order, and none for a token with an equal price or a failed oracle call;
\* publish is called only with a non-empty list.
C12_OneEventPerChangedToken ==
  /\ Collected =>
       /\ [k \in 1..Len(allEvents) |-> allEvents[k].tokenId]
            = SelectSeq(BatchIds, LAMBDA id : id \in ChangedIds)
       /\ \A k \in 1..Len(allEvents) :
            /\ allEvents[k].name = "PriceUpdated"
            /\ allEvents[k].oldPrice = initial[allEvents[k].tokenId].currentPrice
            /\ allEvents[k].newPrice = oracleLog[allEvents[k].tokenId].price
       /\ (BatchNo \in hadEvents) = (Range(BatchIds) \cap ChangedIds # {})
  /\ cpc = "publish" => allEvents # <<>>

C12_Witness ==
  /\ cpc = "publish"
  /\ Len(batch) = 2
  /\ \A i \in 1..Len(results) : results[i] = "fulfilled"
  /\ Len(allEvents) = 1
  /\ \E id \in Range(BatchIds) : id \notin ChangedIds /\ id \notin OracleFailedIds

\* C13: saveBatch receives, and updatedCount counts, only the tokens whose price
\* actually changed: a token whose oracle price equals its current price is neither
\* handed to saveBatch nor counted as updated.
C13_OnlyChangedSavedAndCounted ==
  Collected =>
    /\ [k \in 1..Len(tokensToSave) |-> tokensToSave[k].id]
         = SelectSeq(BatchIds, LAMBDA id : id \in ChangedIds)
    /\ updatedCount = Cardinality(ChangedIds)

\* the last call on the Token was updatePrice with a price equal to the current one
UpdatedWithEqualPrice ==
  /\ tk.call = "updatePrice"
  /\ TokenPriceEquals(TokenPriceCreate(tk.arg), tk.before.price)

UpdatedWithOtherPrice ==
  /\ tk.call = "updatePrice"
  /\ ~TokenPriceEquals(TokenPriceCreate(tk.arg), tk.before.price)

\* C14: updatePrice(p, t) with p equal to the current price is a no-op: currentPrice,
\* lastPriceUpdateDateTime and the pending-event queue are what they were.
C14_EqualPriceIsNoOp ==
  UpdatedWithEqualPrice =>
    /\ tk.token.price = tk.before.price
    /\ tk.token.time = tk.before.time
    /\ tk.token.events = tk.before.events
    /\ tk.token = tk.before

C14_Witness ==
  /\ UpdatedWithEqualPrice
  /\ tk.before.events # <<>>
  /\ tk.before.time # tk.at

\* C15: updatePrice(p2, t) with p2 different from the current price sets currentPrice
\* to p2 and lastPriceUpdateDateTime to t and enqueues exactly one PriceUpdated event
\* with this token's id and symbol, the old price, p2 and occurredAt = t.
C15_OtherPriceUpdatesAndEnqueuesOne ==
  UpdatedWithOtherPrice =>
    /\ TokenPriceGetValue(tk.token.price) = tk.arg
    /\ tk.token.time = tk.at
    /\ tk.token.events =
         Append(tk.before.events,
                [name |-> "PriceUpdated",
                 tokenId |-> tk.before.id,
                 symbol |-> tk.before.symbol,
                 oldPrice |-> TokenPriceGetValue(tk.before.price),
                 newPrice |-> tk.arg,
                 occurredAt |-> tk.at])
    /\ tk.token.id = tk.before.id
    /\ tk.token.symbol = tk.before.symbol

C15_Witness ==
  /\ UpdatedWithOtherPrice
  /\ tk.before.events # <<>>
  /\ tk.before.symbol = "null"

\* C16: pullEvents is a draining read: the lists returned so far, followed by the
\* queue, are the events enqueued so far in the order they were enqueued, none
\* twice; the queue is empty right after a pullEvents; and a pullEvents that follows
\* a pullEvents immediately returns the empty list.
C16_PullEventsDrains ==
  /\ [](tk.call # "none" =>
          /\ Flatten(tk.pulls) \o tk.token.events = tk.enq
          /\ Cardinality(Range(Flatten(tk.pulls))) = Len(Flatten(tk.pulls))
          /\ tk.call = "pullEvents" => tk.token.events = <<>>)
  /\ [][(tk.call = "pullEvents" /\ Len(tk'.pulls) = Len(tk.pulls) + 1)
          => tk'.pulls[Len(tk'.pulls)] = <<>>]_vars

C16_Witness ==
  /\ tk.call = "pullEvents"
  /\ Len(tk.pulls) = 2
  /\ Len(tk.pulls[1]) = 2
  /\ tk.pulls[2] = <<>>

RetrySettled == op.state \in {"resolved", "rejected"}

C18_RejectsWithLastError ==
  op.state = "rejected" => op.rejection = op.errors[Len(op.errors)]

C20_PublishRejectsWhenSendRejects ==
  \A b \in sendRejected : b \in publishRejected /\ b \notin publishOk

\* C21: a rejected transport send is retried: the step in which producer.send rejects
\* does not complete the publish successfully (the send is attempted again, and only
\* an accepted attempt lets publish succeed).
C21_RejectedSendIsRetried ==
  [][sendRejected' # sendRejected => publishOk' = publishOk]_vars

\* C22: with the producer enabled, the producer send that publish issues for a
\* non-empty list of PriceUpdated events carries exactly one message per input event
\* (same tokenId, oldPrice, newPrice, in order), none dropped, also for events whose
\* symbol is null or empty.
C22_PublishSendsEveryEvent ==
  (cpc = "publish" /\ enabled) =>
    LET msgs == SendOf(allEvents)
    IN  /\ Len(msgs) = Len(allEvents)
        /\ \A k \in 1..Len(msgs) :
             /\ msgs[k].tokenId = allEvents[k].tokenId
             /\ msgs[k].oldPrice = allEvents[k].oldPrice
             /\ msgs[k].newPrice = allEvents[k].newPrice

\* C23: with no events collected for a batch nothing is published: bus.publish is not
\* called, no producer send is issued for the batch (every send belongs to a batch
\* that had events), publish and sendPriceUpdateBatch send nothing for an empty list,
\* and saveBatch is still called for the batch's fulfilled tokens.
C23_EmptyEventListShortCircuits ==
  /\ SendOf(<<>>) = <<>>
  /\ sendCalls <= Cardinality(hadEvents)
  /\ (publishOk \cup publishRejected \cup sendRejected) \subseteq hadEvents
  /\ (Collected /\ allEvents = <<>>) =>
       /\ cpc # "publish"
       /\ BatchNo \notin hadEvents
       /\ tokensToSave # <<>> => BatchNo \in saveInvoked

C23_Witness ==
  /\ cpc = "save"
  /\ allEvents = <<>>
  /\ tokensToSave # <<>>
  /\ BatchNo = 2
  /\ sendCalls = 1
  /\ BatchNo \notin publishOk

\* the row of a changed token as saveBatch of batch b commits it
Committed(id, b) ==
  /\ store[id].currentPrice = oracleLog[id].price
  /\ store[id].lastPriceUpdateDateTime = b

\* C24: saveBatch is atomic per batch: at any moment, also between and after the
\* attempts of its retry and after its rejection, the price and update time of the
\* changed tokens of a batch are committed for all of them or for none.
C24_SaveBatchAtomic ==
  \A b \in 1..Len(delivered) :
    LET ids == Range(delivered[b]) \cap ChangedIds
    IN  \/ \A id \in ids : Committed(id, b)
        \/ \A id \in ids : store[id] = initial[id]

C24_Witness ==
  /\ Len(delivered) = 2
  /\ Range(delivered[1]) \subseteq ChangedIds
  /\ Len(delivered[1]) = 2
  /\ \A id \in Range(delivered[1]) : Committed(id, 1)
  /\ cpc = "save"
  /\ saveAttempts >= 1
  /\ Range(delivered[2]) \subseteq ChangedIds
  /\ \A id \in Range(delivered[2]) : store[id] = initial[id]

\* ids whose oracle call returned a price TokenPrice.create rejects
InvalidPriceIds ==
  { id \in DOMAIN oracleLog :
      oracleLog[id].kind = "price" /\ ~TokenPriceValid(oracleLog[id].price) }

\* C25: an invalid price returned by the oracle fails that token only: the Token's
\* price, update time and queue stay as read, the token is in neither the batch's
\* events nor its saveBatch list nor ever persisted or published, it is counted in
\* errorCount, its oracle outcome is final (no second call), and the other tokens of
\* the batch are collected as usual.
C25_InvalidPriceFailsTokenOnly ==
  /\ [](/\ \A i \in 1..Len(batch) :
             batch[i].id \in InvalidPriceIds =>
               /\ batch[i] = MapToDomain(batch[i].id, initial[batch[i].id])
               /\ results[i] = "rejected"
        /\ \A id \in InvalidPriceIds :
             /\ store[id] = initial[id]
             /\ \A m \in sent : m.tokenId # id
        /\ Collected =>
             /\ \A k \in 1..Len(tokensToSave) : tokensToSave[k].id \notin InvalidPriceIds
             /\ \A k \in 1..Len(allEvents) : allEvents[k].tokenId \notin InvalidPriceIds
             /\ errorCount >= Cardinality(InvalidPriceIds)
             /\ errorCount = Cardinality(OracleFailedIds)
             /\ \A i \in 1..Len(batch) :
                  batch[i].id \notin OracleFailedIds =>
                    \E k \in 1..Len(tokensToSave) : tokensToSave[k].id = batch[i].id
             /\ pc # "failed" \/ readFailed)
  /\ [][\A id \in InvalidPriceIds :
          id \in DOMAIN oracleLog' /\ oracleLog'[id] = oracleLog[id]]_vars

C25_Witness ==
  /\ cpc = "save"
  /\ Len(batch) = 2
  /\ batch[1].id \in InvalidPriceIds
  /\ oracleLog[batch[1].id].price < 0
  /\ batch[2].id \in ChangedIds
  /\ Len(tokensToSave) = 1
  /\ errorCount = 1

\* C26: overlapping runs are not guarded: whenever a trigger fires for an execute that
\* is not running, execute starts, whatever the other run is doing; so two runs are
\* in progress at once and both publish an event and persist a price for one token.
C26_OverlappingRunsNotGuarded ==
  \A r \in Runs : ov.run[r].pc = "idle" => ENABLED OvExecute(r)

C26_Witness ==
  /\ \A r \in Runs : ov.run[r].pc \in InProgress
  /\ \E id \in DOMAIN ov.store :
       \A r \in Runs : id \in ov.run[r].published /\ id \in ov.run[r].persisted

\* C27: every execute ends with exactly one terminal report: while it runs nothing is
\* reported; when the stream is exhausted exactly one completed summary is recorded
\* (carrying the run's totalProcessed, updatedCount and errorCount) and no failed
\* metric, and execute returns; when an error propagates exactly one failed metric and
\* no summary, and execute rejects; the span is recorded exactly once in either case,
\* and nothing is reported or counted after the end.
C27_OneTerminalReport ==
  /\ [](/\ pc \in {"idle", "read", "await"} =>
             completedMetric = 0 /\ failedMetric = 0 /\ spanRecorded = 0 /\ thrown = "none"
        /\ pc = "completed" =>
             /\ completedMetric = 1 /\ failedMetric = 0 /\ spanRecorded = 1
             /\ thrown = "none"
             /\ totalProcessed = Len(Flatten(delivered))
             /\ updatedCount + errorCount = totalProcessed
        /\ pc = "failed" =>
             /\ completedMetric = 0 /\ failedMetric = 1 /\ spanRecorded = 1
             /\ thrown # "none")
  /\ [][(pc = "completed" \/ pc = "failed") =>
          (/\ pc' = pc
           /\ UNCHANGED <<completedMetric, failedMetric, spanRecorded>>
           /\ UNCHANGED <<totalProcessed, updatedCount, errorCount>>)]_vars

C27_Witness ==
  /\ pc = "completed"
  /\ completedMetric = 1
  /\ spanRecorded = 1
  /\ totalProcessed = 3
  /\ updatedCount = 2
  /\ errorCount = 1

\* C28: every TokenPrice has a scaled amount above zero: create, fromAmountString,
\* add, subtract and multiply return a price whose amount is strictly positive or
\* throw; a.subtract(b) throws whenever b >= a (a.subtract(a) included); add and
\* subtract are the exact integer sum and difference of the scaled amounts.
C28_AmountsPositive ==
  /\ tp.a > 0
  /\ tp.b > 0
  /\ tp.result.ok => tp.result.amount > 0
  /\ (tp.call = "subtract" /\ tp.arg.other >= tp.arg.this) => ~tp.result.ok
  /\ (tp.call = "subtract" /\ tp.result.ok) =>
        tp.result.amount = tp.arg.this - tp.arg.other /\ tp.a = tp.result.amount
  /\ (tp.call = "add" /\ tp.result.ok) =>
        tp.result.amount = tp.arg.this + tp.arg.other /\ tp.a = tp.result.amount

C28_Witness ==
  /\ tp.call = "subtract"
  /\ tp.arg.other = tp.arg.this
  /\ ~tp.result.ok
  /\ tp.a = tp.arg.this

\* digits, or digits "." digits
IsDecimalString(s) ==
  \/ s # <<>> /\ IsDigits(s)
  \/ /\ FirstDot(s) > 1
     /\ FirstDot(s) < Len(s)
     /\ IsDigits(SubSeq(s, 1, FirstDot(s) - 1))
     /\ IsDigits(SubSeq(s, FirstDot(s) + 1, Len(s)))

\* x is a positive decimal string or number with at most 8 fractional digits
PositiveWithinScale(x) ==
  \/ /\ x.type = "string"
     /\ IsDecimalString(x.s)
     /\ Len(SplitFrac(x.s)) <= 8
     /\ \E k \in 1..Len(x.s) : x.s[k] \in Digits \ {"0"}
  \/ /\ x.type = "number"
     /\ x.kind = "decimal"
     /\ ~NumberLeqZero(x)
     /\ Len(x.frac) <= 8

\* the decimal value x denotes: integer digits without leading zeros and
\* fractional digits without trailing zeros
DecimalOf(x) ==
  IF x.type = "string"
  THEN <<StripLeadingZeros(SplitInt(x.s)), StripTrailingZeros(SplitFrac(x.s))>>
  ELSE <<x.int, x.frac>>

\* C29: for every positive decimal string or number x with at most 8 fractional
\* digits, TokenPrice.create(x) succeeds, create(x).toString() denotes exactly the
\* decimal value of x, and create(create(x).toString()) equals create(x).
C29_CreateRoundTrips ==
  (tp.call \in {"create", "toString"} /\ PositiveWithinScale(tp.arg)) =>
     /\ tp.result.ok
     /\ tp.call = "toString" =>
          /\ DecimalOf(Str(tp.out)) = DecimalOf(tp.arg)
          /\ Create(Str(tp.out)) = tp.result

\* the same, for decimal strings and for numbers of at least 0.000001
CreateRoundTripsOutsideExponentNotation ==
  (/\ tp.call \in {"create", "toString"}
   /\ PositiveWithinScale(tp.arg)
   /\ tp.arg.type = "number" => NumberToString(tp.arg) = tp.arg.int \o (IF tp.arg.frac # <<>> THEN <<".">> \o tp.arg.frac ELSE <<>>)) =>
     /\ tp.result.ok
     /\ tp.call = "toString" =>
          /\ DecimalOf(Str(tp.out)) = DecimalOf(tp.arg)
          /\ Create(Str(tp.out)) = tp.result

\* x is zero, negative, has more than 8 fractional digits or, being a number,
\* exceeds Number.MAX_SAFE_INTEGER
OutsidePriceDomain(x) ==
  \/ /\ x.type = "string"
     /\ \/ x.s # <<>> /\ x.s[1] = "-"
        \/ IsDecimalString(x.s) /\ \A k \in 1..Len(x.s) : x.s[k] \in {"0", "."}
        \/ Len(SplitFrac(x.s)) > 8
  \/ /\ x.type = "number"
     /\ \/ x.kind = "huge"
        \/ x.kind = "decimal" /\ (x.neg \/ IsZeroNumber(x) \/ Len(x.frac) > 8)

\* C30: TokenPrice.create throws, and constructs no instance, for every value that
\* is zero, negative, has more than 8 fractional digits or, for a number, exceeds
\* Number.MAX_SAFE_INTEGER.
C30_CreateRejectsOutsideDomain ==
  [][(/\ tp'.call = "create"
      /\ tp'.calls = tp.calls + 1
      /\ OutsidePriceDomain(tp'.arg)) =>
        (/\ ~tp'.result.ok
         /\ tp'.a = tp.a
         /\ tp'.b = tp.b)]_vars

C30_Witness ==
  /\ tp.call = "create"
  /\ tp.arg.type = "number"
  /\ tp.arg.kind = "decimal"
  /\ ~tp.arg.neg
  /\ Len(tp.arg.frac) > 8
  /\ tp.arg.int = <<"1">>
  /\ ~tp.result.ok
  /\ tp.result.error = "Too many decimal places for token price precision"

\* the factor on the 10^8 scale, from its decimal digits: the first 8 digits after
\* the point are kept
FactorScaledOf(f) == DigitsToInt(StripLeadingZeros(f.int \o PadEndSlice(f.frac)))

\* floor((amount * factorScaled + 10^8 / 2) / 10^8)
RoundedProduct(amount, factorScaled) ==
  LET qr == MulDiv(amount, factorScaled)
  IN  qr.q + ((qr.r + (SCALE_FACTOR \div 2)) \div SCALE_FACTOR)

\* what multiply is to do with a finite factor above zero
MultiplyAsSpecified(f) ==
  IF RoundedProduct(f.this, FactorScaledOf(f)) <= 0
  THEN ~tp.result.ok
  ELSE /\ tp.result.ok
       /\ tp.result.amount = RoundedProduct(f.this, FactorScaledOf(f))
       /\ tp.a = tp.result.amount

\* C31: multiply(factor) converts the factor to the 10^8 scale, multiplies the two
\* scaled integers and divides by 10^8 rounding half up: the amount returned is
\* floor((amount * factorScaled + 10^8/2) / 10^8), a tie at the 8th digit rounds up,
\* and the call fails when that result is <= 0.
C31_MultiplyRoundsHalfUp ==
  (tp.call = "multiply" /\ tp.arg.kind = "decimal" /\ ~NumberLeqZero(tp.arg)) =>
     MultiplyAsSpecified(tp.arg)

\* the same, for the factors toString prints without an exponent
MultiplyRoundsHalfUpOutsideExponentNotation ==
  (/\ tp.call = "multiply"
   /\ tp.arg.kind = "decimal"
   /\ ~NumberLeqZero(tp.arg)
   /\ IsDecimalString(NumberToString(tp.arg))) =>
     MultiplyAsSpecified(tp.arg)

\* C32: at the end of every completely processed batch, and so in the summary of
\* every run that completes, totalProcessed = updatedCount + errorCount and
\* totalProcessed is the number of tokens the stream has delivered so far (the
\* number of tokens in the store for a completed run).
C32_CountersAddUp ==
  /\ cpc = "returned" =>
        /\ totalProcessed = updatedCount + errorCount
        /\ totalProcessed = Len(Flatten(delivered))
  /\ pc = "completed" =>
        /\ totalProcessed = updatedCount + errorCount
        /\ totalProcessed = Len(store)

C32_Witness ==
  /\ pc = "read"
  /\ cpc = "returned"
  /\ Len(delivered) = 1
  /\ Len(store) = 3
  /\ totalProcessed = 2
  /\ updatedCount = 1
  /\ errorCount = 1
  /\ tokensToSave # <<>>
  /\ allEvents = <<>>

\* the batch that delivered token id
BatchOf(id) == CHOOSE b \in 1..Len(delivered) : id \in Range(delivered[b])

\* saveBatch was called for batch b and has resolved
SaveSucceeded(b) ==
  /\ b \in saveInvoked
  /\ b \notin saveRejected
  /\ ~(cpc = "save" /\ BatchNo = b)

\* the PriceUpdated events publish has accepted: those of the current batch once
\* publish has returned, and every message a send has carried
PublishedNow ==
  IF BatchNo \in publishOk
  THEN {[tokenId |-> e.tokenId, oldPrice |-> e.oldPrice, newPrice |-> e.newPrice,
         at |-> e.occurredAt] : e \in Range(allEvents)}
  ELSE {}

PublishedSent ==
  {[tokenId |-> m.tokenId, oldPrice |-> m.oldPrice, newPrice |-> m.newPrice,
    at |-> m.timestamp] : m \in sent}

\* C33: within one run every published PriceUpdated event agrees with the store:
\* oldPrice is the token's price as read for that batch, newPrice the price the
\* oracle returned for the token, and once that batch's saveBatch has succeeded the
\* stored currentPrice is the event's newPrice and the stored lastPriceUpdateTime
\* its occurredAt.
C33_EventsAgreeWithStore ==
  \A e \in PublishedNow \cup PublishedSent :
    /\ e.oldPrice = initial[e.tokenId].currentPrice
    /\ oracleLog[e.tokenId].kind = "price"
    /\ e.newPrice = oracleLog[e.tokenId].price
    /\ e.at = BatchOf(e.tokenId)
    /\ SaveSucceeded(BatchOf(e.tokenId)) =>
          /\ store[e.tokenId].currentPrice = e.newPrice
          /\ store[e.tokenId].lastPriceUpdateDateTime = e.at

C33_Witness ==
  /\ pc = "completed"
  /\ Len(delivered) = 2
  /\ SaveSucceeded(1)
  /\ SaveSucceeded(2)
  /\ \E e \in PublishedSent : BatchOf(e.tokenId) = 1 /\ store[e.tokenId].currentPrice = e.newPrice
  /\ \E e \in PublishedSent : BatchOf(e.tokenId) = 2 /\ store[e.tokenId].lastPriceUpdateDateTime = e.at

\* C34: a batch's publish and persist steps do not start until every oracle call of
\* the batch has settled; while one call has not returned, nothing of the batch is
\* published or saved and no later batch is read, and the run has no timeout or
\* cancellation that would end the wait.
C34_StuckOracleCallBlocksRun ==
  /\ [](Collected => InFlight = 0)
  /\ [][InFlight > 0 =>
          (/\ pc' = "await"
           /\ cpc' = "oracle"
           /\ UNCHANGED <<store, delivered, reads, cursor, sent, sendCalls>>
           /\ UNCHANGED <<publishOk, publishRejected, saveInvoked, saveRejected>>
           /\ UNCHANGED <<totalProcessed, updatedCount, errorCount>>
           /\ UNCHANGED <<thrown, completedMetric, failedMetric, spanRecorded>>)]_vars

C34_Witness ==
  /\ pc = "await"
  /\ cpc = "oracle"
  /\ BatchNo = 1
  /\ Len(batch) = 2
  /\ Len(store) = 3
  /\ InFlight = 1
  /\ \E i \in 1..Len(oracle) : oracle[i].kind = "price" /\ batch[i].events # <<>>
  /\ publishOk = {}
  /\ saveInvoked = {}
  /\ store = initial

\* the ids the stream has delivered, in order
DeliveredIds == Flatten(delivered)

\* C35: over a finite store, when every cursor read, oracle call, publish and
\* saveBatch call eventually returns, every execute that was started eventually
\* finishes, returning or rejecting; the cursor strictly increases between reads
\* and no row is read twice.
C35_RunTerminates ==
  /\ (pc \in {"read", "await"}) ~> (pc \in {"completed", "failed"})
  /\ [](\A i, j \in 1..Len(DeliveredIds) : i < j => DeliveredIds[i] < DeliveredIds[j])
  /\ [][cursor' # cursor => cursor' > cursor]_vars

C35_Witness ==
  /\ pc = "completed"
  /\ Len(store) = 2
  /\ batchSize = 1
  /\ reads = <<1, 1, 0>>
  /\ cursor = 2
  /\ DeliveredIds = <<1, 2>>

\* the ids of the tokens handed to saveBatch for the current batch
SavedIds == {tokensToSave[k].id : k \in 1..Len(tokensToSave)}

\* C36: a run writes to the store only through saveBatch, and saveBatch changes only
\* currentPrice and lastPriceUpdateTime of the tokens passed to it; the other fields
\* of those tokens and every field of the tokens not passed, those whose oracle call
\* failed included, stay as they were.
C36_StoreFrame ==
  /\ [](/\ DOMAIN store = DOMAIN initial
        /\ \A id \in DOMAIN store :
             /\ store[id].symbol = initial[id].symbol
             /\ id \in OracleFailedIds => store[id] = initial[id]
             /\ id \notin DOMAIN oracleLog => store[id] = initial[id])
  /\ [][store' # store =>
          (/\ cpc = "save"
           /\ cpc' = "returned"
           /\ \A id \in DOMAIN store :
                /\ id \notin SavedIds => store'[id] = store[id]
                /\ store'[id].symbol = store[id].symbol)]_vars

C36_Witness ==
  /\ cpc = "returned"
  /\ Len(store) = 3
  /\ Len(batch) = 2
  /\ BatchNo = 1
  /\ SavedIds = {2}
  /\ OracleFailedIds = {1}
  /\ store[1] = initial[1]
  /\ store[2].currentPrice # initial[2].currentPrice
  /\ store[2].lastPriceUpdateDateTime # initial[2].lastPriceUpdateDateTime
  /\ store[3] = initial[3]

\* C37: when the producer is disabled (test environment, or the connection attempt
\* of onModuleInit failed), sendPriceUpdateBatch and sendPriceUpdateMessage send
\* nothing and return normally whatever they are given, and publish over the
\* producer returns normally too.
C37_DisabledProducerSendsNothing ==
  /\ (kp.inited /\ (kp.env = "test" \/ ~kp.connects)) => ~kp.enabled
  /\ ~kp.enabled => kp.out = <<>> /\ kp.sendCalls = 0
  /\ ~kp.threw

C37_Witness ==
  /\ kp.call = "sendPriceUpdateBatch"
  /\ kp.inited
  /\ kp.env = "production"
  /\ ~kp.connects
  /\ ~kp.enabled
  /\ Len(kp.arg) = 2
  /\ ValidMessages(kp.arg) = kp.arg
  /\ kp.out = <<>>
  /\ kp.sendCalls = 0
  /\ ~kp.threw

\* C38: handlePriceUpdate never hands a failure of execute to the cron scheduler (a
\* failed run is logged and swallowed, and later ticks still start a run), and a
\* tick of a scheduler disabled by configuration never invokes execute.
C38_TickSwallowsFailure ==
  /\ ep.call = "tick" => ep.outcome # "rejected"
  /\ ~ep.isEnabled => ep.execByTick = 0
  /\ (ep.isEnabled /\ ep.phase # "executing" /\ ep.calls < MaxEntryCalls) => ENABLED EpTick

C38_Witness ==
  /\ ep.call = "tick"
  /\ ep.isEnabled
  /\ ep.phase = "executing"
  /\ ep.execByTick = 2
  /\ ep.execByTrigger = 0
  /\ ep.failures = 1

\* C39: in production a POST trigger-update whose x-internal-job-token header is
\* missing or differs from INTERNAL_JOB_TOKEN, or with INTERNAL_JOB_TOKEN unset, is
\* answered with Forbidden (403) and starts no run.
C39_ForbiddenTrigger ==
  (/\ ep.call = "trigger"
   /\ ep.phase = "done"
   /\ Forbidden(ep.env, ep.expected, ep.header)) =>
     /\ ep.status = 403
     /\ ep.outcome = "rejected"

\* what does hold of such a request: it is rejected and it starts no run
ForbiddenTriggerStartsNoRun ==
  /\ (ep.call = "trigger" /\ Forbidden(ep.env, ep.expected, ep.header)) =>
        ep.phase = "done" /\ ep.outcome = "rejected" /\ ep.status = 500
  /\ (ep.env = "production" /\ ep.expected = "") => ep.execByTrigger = 0

====
